---- MODULE Spec2Model ----
(***************************************************************************)
(* Model of the reminder pipeline of the storefront bot: the users and     *)
(* valuations tables, the system settings, the .env mirror, the scheduler   *)
(* loop (reminder_task), process_reminders and the broadcast dispatcher.   *)
(* Time is wall-clock time in seconds.                                      *)
(***************************************************************************)
EXTENDS Integers, Sequences, FiniteSets, TLC

\* ------------------------------------------------------------- bounds ----
NumUsers == 1
MaxValuations == 2
MaxTime == 240
ClockStep == 60
MaxEnvWrites == 1
NumAdmins == 2
MaxConfirms == 2
MaxEvents == 2

\* -------------------------------------------------- program constants ----
SleepSeconds == 10
ErrorSleepSeconds == 60
DefaultIntervalMinutes == 1
DefaultDelayMinutes == 15
SecondsPerMinute == 60
NoTime == -1
FirstSeen == -2

DefaultAbandonedThreshold == 10

PriceLowMin == 1100
PriceLowMax == 3500
OffsetMin == 500
OffsetMax == 1500
PriceCeiling == 4500
PriceClamped == 4200
RoundingStep == 10

Users == 1..NumUsers
ADMIN_IDS == 1..NumAdmins
Runs == {1, 2}
SchedulerRun == 1
Absent == "<absent>"
\* message.text of a message without text (a photo, a sticker), and the value
\* data.get returns for a key the FSM data does not hold.
NoText == "None"

VARIABLES
    now,             \* wall clock (NOW(), datetime.now())
    users,           \* users table: user_id -> row
    valuations,      \* valuations table: sequence indexed by id
    settings,        \* system_settings: setting_key -> setting_value
    env_file,        \* .env file: variable -> value or Absent
    env_mtime,       \* st_mtime of the .env file
    environ,         \* os.environ restricted to the synced variables
    REMINDER_ENABLED,\* config constant read at import
    main,            \* main(): pc, whether the task was cancelled, the connection pool
    admin_notification_settings, \* admin_notification_settings table: admin_id -> row
    DEFAULTS,        \* config constants DEFAULT_NOTIFY_*, DEFAULT_ABANDONED_THRESHOLD
    notification,    \* the last NotificationService call: kind, count, operators messaged
    sched,           \* reminder_task: pc, last_check_time, current_time, wake_time, last_modified
    run,             \* process_reminders invocations: pc, todo, total, sent, failed
    bc,              \* callback_broadcast_confirm / execute_broadcast: pc, users, todo, the
                     \* counts, the last delivery outcome, aborted, what the operator is shown
    delivered,       \* reminder messages accepted by the channel, per selected valuation id
    failed_once,     \* valuation ids whose reminder delivery failed for a non-block reason
    last_activity,   \* users.last_activity: user_id -> time
    username_valuations, \* username_valuations table: username -> report
    calls,           \* handler invocations in flight (evaluate_username, callback_sell_current)
    events,          \* events table: sequence indexed by id
    dialog,          \* per sender: FSM state and data, last message and reply
    listing,         \* AnalyticsService.get_users_list: table read, page, page_size, result
    valuation_data   \* get_valuation_data: the price draws

notifvars == <<admin_notification_settings, DEFAULTS, notification>>

appvars == <<username_valuations, calls, events, dialog, listing, valuation_data>>

vars == <<now, users, valuations, settings, env_file, env_mtime, environ,
          REMINDER_ENABLED, main, notifvars, sched, run, bc, delivered, failed_once,
          last_activity, appvars>>

pipelinevars == <<settings, env_file, env_mtime, environ, REMINDER_ENABLED, main, notifvars,
                  sched, run, bc, delivered, failed_once>>

\* ------------------------------------------------------------ helpers ----
\* Python int() over the setting strings that occur in the model.
IntValue == ("0" :> 0) @@ ("1" :> 1) @@ ("2" :> 2) @@ ("15" :> 15) @@ ("61" :> 61) @@ ("1441" :> 1441)

ParsesAsInt(s) == s \in DOMAIN IntValue

\* str() of an integer that int() produced.
StrOfInt(n) == CHOOSE s \in DOMAIN IntValue : IntValue[s] = n

\* Variant of IntOrDefault that takes an unparseable value for 0.
IntOrDefault_ZeroOnError(s, default) == IF ParsesAsInt(s) THEN IntValue[s] ELSE 0

\* int(value) with the ValueError fallback used by the scheduler.
IntOrDefault(s, default) == IF ParsesAsInt(s) THEN IntValue[s] ELSE default

get_system_setting(key, default) ==
    IF key \in DOMAIN settings THEN settings[key] ELSE default

sync_map == [REMINDER_DELAY_MINUTES |-> "reminder_delay_minutes",
             REMINDER_CHECK_INTERVAL_MINUTES |-> "reminder_check_interval",
             REMINDER_ENABLED |-> "reminder_enabled"]

EnvKeys == DOMAIN sync_map

reverse_map(db_key) == CHOOSE k \in EnvKeys : sync_map[k] = db_key

RECURSIVE SortedSeq(_)
SortedSeq(S) ==
    IF S = {} THEN <<>>
    ELSE LET m == CHOOSE x \in S : \A y \in S : x <= y
         IN <<m>> \o SortedSeq(S \ {m})

Range(s) == {s[i] : i \in 1..Len(s)}

ValuationIds == 1..Len(valuations)

NoUserRow == [exists |-> FALSE, is_bot_blocked |-> FALSE, contacted_manager |-> FALSE,
              reminder_sent |-> FALSE, last_valuation_date |-> NoTime]

IdleRun == [pc |-> "idle", todo |-> <<>>, total |-> 0, sent |-> 0, failed |-> 0]

NoSettingsRow == [exists |-> FALSE, notify_new_users |-> TRUE, notify_orders |-> TRUE,
                  notify_abandoned_checkouts |-> TRUE,
                  abandoned_threshold |-> DefaultAbandonedThreshold]

IdleBroadcast == [pc |-> "idle", users |-> <<>>, todo |-> <<>>, total |-> 0, success |-> 0,
                  blocked |-> 0, failed |-> 0, last_outcome |-> "none",
                  aborted |-> FALSE, shown |-> "nothing"]

\* --------------------------------------------------------------- Init ----

\* --------------------------------------------------- handles and reports ----
\* The texts sent for appraisal, and what the string operations of the code
\* make of them.
InputTexts == {"abcd", "@abcd", "Abcd", "@Abcd", "@wxyz", "ab"}

\* if not username.startswith("@"): username = f"@{username}"
WithMarker == ("abcd" :> "@abcd") @@ ("@abcd" :> "@abcd") @@ ("Abcd" :> "@Abcd") @@
              ("@Abcd" :> "@Abcd") @@ ("@wxyz" :> "@wxyz") @@ ("ab" :> "@ab")

\* username.lstrip("@")
StripMarker == ("@abcd" :> "abcd") @@ ("@Abcd" :> "Abcd") @@ ("@wxyz" :> "wxyz") @@
               ("@ab" :> "ab") @@ ("abcd" :> "abcd") @@ ("Abcd" :> "Abcd") @@
               ("wxyz" :> "wxyz") @@ ("ab" :> "ab")

\* str.lower()
Lower == ("abcd" :> "abcd") @@ ("Abcd" :> "abcd") @@ ("wxyz" :> "wxyz") @@ ("ab" :> "ab")

\* len(clean_username)
StrLen == ("abcd" :> 4) @@ ("Abcd" :> 4) @@ ("wxyz" :> 4) @@ ("ab" :> 2)

\* f"@{clean_username}"
PrependMarker == ("abcd" :> "@abcd") @@ ("Abcd" :> "@Abcd") @@ ("wxyz" :> "@wxyz") @@
                 ("ab" :> "@ab")

\* Variant of is_valid_username that accepts every text.
is_valid_username_AcceptsAll(text) == TRUE

\* ^@?[a-zA-Z][a-zA-Z0-9_]{3,31}$
is_valid_username(text) == StrLen[StripMarker[text]] >= 4 /\ StrLen[StripMarker[text]] <= 32

\* The keys of the username_valuations table.
CleanUsernames == {Lower[StripMarker[t]] : t \in {x \in InputTexts : is_valid_username(WithMarker[x])}}

NoReport == [username |-> "", structure |-> 0, category |-> "", price_low |-> 0,
             price_high |-> 0]

\* round(n, -1) of Python 3: to the nearest multiple of ten, a tie to the even one
RoundToTen(n) ==
    LET q == n \div RoundingStep
        m == n % RoundingStep
    IN IF 2 * m < RoundingStep THEN RoundingStep * q
       ELSE IF 2 * m > RoundingStep THEN RoundingStep * (q + 1)
       ELSE IF q % 2 = 0 THEN RoundingStep * q
       ELSE RoundingStep * (q + 1)

\* price_low = round(random.randint(1100, 3500), -1)
PriceLow(low_draw) == RoundToTen(low_draw)

\* Variant of PriceHigh without the ceiling.
PriceHigh_NoCeiling(price_low, offset_draw) == price_low + offset_draw

\* price_high = price_low + random.randint(500, 1500); if price_high > 4500: price_high = 4200
PriceHigh(price_low, offset_draw) ==
    IF price_low + offset_draw > PriceCeiling THEN PriceClamped ELSE price_low + offset_draw

get_valuation_data(username, draw) ==
    [username |-> PrependMarker[StripMarker[username]],
     structure |-> StrLen[StripMarker[username]],
     category |-> draw.category,
     price_low |-> PriceLow(draw.low),
     price_high |-> PriceHigh(PriceLow(draw.low), draw.offset)]

\* SELECT * FROM username_valuations WHERE username = clean_username
get_valuation(username) ==
    LET clean_username == Lower[StripMarker[username]]
        row == username_valuations[clean_username]
    IN IF row = NoReport THEN NoReport
       ELSE [row EXCEPT !.username = PrependMarker[clean_username]]

\* Variant of save_valuation that replaces the row of an existing key.
save_valuation_Upsert(data) ==
    LET clean_username == Lower[StripMarker[data.username]]
    IN username_valuations' =
          [username_valuations EXCEPT ![clean_username] =
              [data EXCEPT !.username = clean_username]]

\* INSERT INTO username_valuations ... ON CONFLICT (username) DO NOTHING
save_valuation(data) ==
    LET clean_username == Lower[StripMarker[data.username]]
    IN username_valuations' =
          IF username_valuations[clean_username] = NoReport
          THEN [username_valuations EXCEPT ![clean_username] =
                   [data EXCEPT !.username = clean_username]]
          ELSE username_valuations

\* ------------------------------------------------- handler invocations ----
Calls == {1, 2}

\* prior (the invocations that had answered when this one started) and lost (its
\* INSERT of the report met an existing row) record the order of the invocations.
IdleCall == [pc |-> "idle", handler |-> "none", user_id |-> 0, username |-> "",
             tg_username |-> FALSE, data |-> NoReport, event_id |-> 0, reply |-> "none",
             shown |-> NoReport, prior |-> {}, lost |-> FALSE]

NoListing == [rows |-> {}, page |-> 0, page_size |-> 0, users |-> <<>>, total_count |-> 0, total_pages |-> 0]

\* file is the .env file as it was deployed.
InitCore(file) ==
    /\ now = 0
    /\ users = [u \in Users |-> NoUserRow]
    /\ valuations = <<>>
    \* system_settings rows outlive a restart (the defaults are inserted ON CONFLICT
    \* DO NOTHING): the delay is the one an operator stored before this start.
    /\ \E d \in {"1", "2"} :
           settings = [reminder_check_interval |-> "1",
                       reminder_enabled |-> "true",
                       reminder_delay_minutes |-> d]
    /\ env_file = file
    /\ env_mtime = 0
    /\ environ = [k \in EnvKeys |-> Absent]
    /\ REMINDER_ENABLED \in BOOLEAN
    /\ sched = [pc |-> "start", last_check_time |-> NoTime, current_time |-> NoTime,
                wake_time |-> NoTime, last_modified |-> NoTime, env_synced |-> FALSE,
                errors |-> 0]
    /\ run = [r \in Runs |-> IdleRun]
    /\ bc = IdleBroadcast
    /\ delivered = [v \in 1..MaxValuations |-> 0]
    /\ failed_once = {}
    \* main() after db.connect() and the creation of the reminder task.
    /\ main = [pc |-> "polling", cancelled |-> FALSE, must_cancel |-> FALSE, pool |-> "open"]
    /\ notification = [kind |-> "none", count |-> 0, sent |-> {}, failed |-> {}, n |-> 0]
    /\ last_activity = [u \in Users |-> NoTime]
    /\ username_valuations = [k \in CleanUsernames |-> NoReport]
    /\ calls = [c \in Calls |-> IdleCall]
    /\ events = <<>>
    /\ dialog = [from_user \in 1..(NumAdmins + 1) |->
                     [state |-> "none", text |-> "", reply |-> "none",
                      broadcast_type |-> NoText, broadcast_photo |-> NoText,
                      broadcast_text |-> NoText, dispatched |-> 0, confirming |-> 0]]
    /\ listing = NoListing
    /\ valuation_data = [pc |-> "start", price_low |-> 0, price_high |-> 0]

\* No operator has a settings row; the DEFAULT_* variables are absent from the environment.
Init ==
    /\ InitCore([k \in EnvKeys |-> Absent])
    /\ admin_notification_settings = [a \in ADMIN_IDS |-> NoSettingsRow]
    /\ DEFAULTS = [notify_new_users |-> TRUE, notify_orders |-> TRUE,
                   notify_abandoned_checkouts |-> TRUE,
                   abandoned_threshold |-> DefaultAbandonedThreshold]


\* ------------------------------------------------- database operations ----
\* INSERT INTO users (user_id) VALUES ($1) ON CONFLICT DO NOTHING
add_user(u) ==
    /\ users' = IF users[u].exists THEN users
                ELSE [users EXCEPT ![u] = [NoUserRow EXCEPT !.exists = TRUE]]
    /\ last_activity' = IF users[u].exists THEN last_activity
                        ELSE [last_activity EXCEPT ![u] = FirstSeen]
    /\ UNCHANGED valuations

\* Variant of create_valuation that also resets the flags of the user's valuations.
create_valuation_ResetsValuations(u) ==
    /\ users' = IF users[u].exists
                THEN [users EXCEPT ![u].last_valuation_date = now,
                                   ![u].contacted_manager = FALSE,
                                   ![u].reminder_sent = FALSE]
                ELSE users
    /\ valuations' = Append([v \in ValuationIds |->
                                IF valuations[v].user_id = u
                                THEN [valuations[v] EXCEPT !.manager_contacted = FALSE,
                                                           !.reminder_sent = FALSE]
                                ELSE valuations[v]],
                            [user_id |-> u, valuation_date |-> now,
                             manager_contacted |-> FALSE, reminder_sent |-> FALSE,
                             reminder_sent_at |-> NoTime])

\* Variant of create_valuation that leaves the user's two flags as they are.
create_valuation_KeepsFlags(u) ==
    /\ users' = IF users[u].exists
                THEN [users EXCEPT ![u].last_valuation_date = now]
                ELSE users
    /\ valuations' = Append(valuations,
                            [user_id |-> u, valuation_date |-> now,
                             manager_contacted |-> FALSE, reminder_sent |-> FALSE,
                             reminder_sent_at |-> NoTime])

\* UPDATE users SET last_valuation_date, contacted_manager, reminder_sent;
\* INSERT INTO valuations ... RETURNING id
create_valuation(u) ==
    /\ users' = IF users[u].exists
                THEN [users EXCEPT ![u].last_valuation_date = now,
                                   ![u].contacted_manager = FALSE,
                                   ![u].reminder_sent = FALSE]
                ELSE users
    /\ valuations' = Append(valuations,
                            [user_id |-> u, valuation_date |-> now,
                             manager_contacted |-> FALSE, reminder_sent |-> FALSE,
                             reminder_sent_at |-> NoTime])

\* Variant of mark_manager_contacted that updates the users row only.
mark_manager_contacted_UserOnly(u) ==
    /\ users' = IF users[u].exists
                THEN [users EXCEPT ![u].contacted_manager = TRUE]
                ELSE users
    /\ UNCHANGED valuations

\* UPDATE users SET contacted_manager = TRUE;
\* UPDATE valuations SET manager_contacted = TRUE WHERE user_id AND NOT manager_contacted
mark_manager_contacted(u) ==
    /\ users' = IF users[u].exists
                THEN [users EXCEPT ![u].contacted_manager = TRUE]
                ELSE users
    /\ valuations' = [v \in ValuationIds |->
                        IF valuations[v].user_id = u /\ ~valuations[v].manager_contacted
                        THEN [valuations[v] EXCEPT !.manager_contacted = TRUE]
                        ELSE valuations[v]]

\* The subquery of mark_reminder_sent: ids of the user's valuations with both
\* flags false that ORDER BY valuation_date DESC LIMIT 1 may return.
LatestOpenValuation(u) ==
    LET open == {v \in ValuationIds : /\ valuations[v].user_id = u
                                      /\ ~valuations[v].reminder_sent
                                      /\ ~valuations[v].manager_contacted}
    IN {v \in open : \A w \in open : valuations[w].valuation_date <= valuations[v].valuation_date}

\* Variant of mark_reminder_sent that updates the users row only.
mark_reminder_sent_UserOnly(u) ==
    /\ users' = IF users[u].exists
                THEN [users EXCEPT ![u].reminder_sent = TRUE]
                ELSE users
    /\ UNCHANGED valuations

\* UPDATE users SET reminder_sent = TRUE;
\* UPDATE valuations SET reminder_sent = TRUE, reminder_sent_at = NOW() WHERE id = (subquery)
mark_reminder_sent(u) ==
    /\ users' = IF users[u].exists
                THEN [users EXCEPT ![u].reminder_sent = TRUE]
                ELSE users
    /\ IF LatestOpenValuation(u) = {}
       THEN UNCHANGED valuations
       ELSE \E v \in LatestOpenValuation(u) :
                valuations' = [valuations EXCEPT ![v].reminder_sent = TRUE,
                                                 ![v].reminder_sent_at = now]

\* Variant of Qualifying without the age condition.
Qualifying_IgnoringDelay(delay_minutes) ==
    {v \in ValuationIds :
        /\ users[valuations[v].user_id].exists
        /\ ~valuations[v].manager_contacted
        /\ ~valuations[v].reminder_sent
        /\ ~users[valuations[v].user_id].is_bot_blocked}

\* Rows of the join that pass the WHERE clause of get_users_for_reminder.
Qualifying(delay_minutes) ==
    {v \in ValuationIds :
        /\ users[valuations[v].user_id].exists
        /\ valuations[v].valuation_date < now - delay_minutes * SecondsPerMinute
        /\ ~valuations[v].manager_contacted
        /\ ~valuations[v].reminder_sent
        /\ ~users[valuations[v].user_id].is_bot_blocked}

\* The possible results of SELECT DISTINCT ON (u.user_id) ... ORDER BY u.user_id,
\* v.valuation_date DESC: one row per user, a most recent qualifying one
\* (equal dates leave the choice to the store), ordered by user_id.
get_users_for_reminder(delay_minutes) ==
    LET q == Qualifying(delay_minutes)
        qusers == {valuations[v].user_id : v \in q}
        best(u) == {v \in q : /\ valuations[v].user_id = u
                              /\ \A w \in q : valuations[w].user_id = u =>
                                    valuations[w].valuation_date <= valuations[v].valuation_date}
        us == SortedSeq(qusers)
    IN {[i \in 1..Len(us) |-> [user_id |-> us[i], valuation_id |-> f[us[i]],
                               valuation_date |-> valuations[f[us[i]]].valuation_date]] :
            f \in {g \in [qusers -> ValuationIds] : \A u \in qusers : g[u] \in best(u)}}

\* Variant of mark_user_blocked that also sets the user's reminder_sent.
mark_user_blocked_SetsReminderSent(u) ==
    /\ users' = IF users[u].exists
                THEN [users EXCEPT ![u].is_bot_blocked = TRUE, ![u].reminder_sent = TRUE]
                ELSE users
    /\ UNCHANGED valuations

\* UPDATE users SET is_bot_blocked = TRUE
mark_user_blocked(u) ==
    /\ users' = IF users[u].exists THEN [users EXCEPT ![u].is_bot_blocked = TRUE] ELSE users
    /\ UNCHANGED valuations

\* UPDATE users SET is_bot_blocked = FALSE
mark_user_unblocked(u) ==
    /\ users' = IF users[u].exists THEN [users EXCEPT ![u].is_bot_blocked = FALSE] ELSE users
    /\ UNCHANGED valuations

\* INSERT ... ON CONFLICT (setting_key) DO UPDATE SET setting_value
set_system_setting(key, value) == [settings EXCEPT ![key] = value]

\* Variant of get_active_users_for_broadcast without the WHERE clause.
get_active_users_for_broadcast_All ==
    SortedSeq({u \in Users : users[u].exists})

\* SELECT user_id FROM users WHERE is_bot_blocked = FALSE ORDER BY user_id
get_active_users_for_broadcast ==
    SortedSeq({u \in Users : users[u].exists /\ ~users[u].is_bot_blocked})

\* --------------------------------------------------------- config sync ----
\* load_dotenv(override=True): every variable present in the file replaces os.environ's.
load_dotenv_override == [k \in EnvKeys |-> IF env_file[k] # Absent THEN env_file[k] ELSE environ[k]]

\* The values check_and_sync leaves in system_settings once it saw a changed file.
SyncedSettings(env) ==
    [key \in DOMAIN settings |->
        IF \E k \in EnvKeys : sync_map[k] = key /\ env[k] # Absent /\ env[k] # settings[key]
        THEN env[reverse_map(key)]
        ELSE settings[key]]

\* Variant of check_and_sync that reports a change whenever the file has been
\* written since the start.
check_and_sync_ReportsWrittenFile(env_synced) ==
    IF sched.last_modified = NoTime \/ sched.last_modified = env_mtime
    THEN /\ env_synced = (env_mtime # 0)
         /\ UNCHANGED <<settings, environ>>
    ELSE /\ environ' = load_dotenv_override
         /\ settings' = SyncedSettings(load_dotenv_override)
         /\ env_synced = (settings' # settings)

\* ConfigSyncService.check_and_sync, on the scheduler's instance; env_synced is
\* the value returned: True when at least one setting was written.
check_and_sync(env_synced) ==
    IF sched.last_modified = NoTime \/ sched.last_modified = env_mtime
    THEN /\ env_synced = FALSE
         /\ UNCHANGED <<settings, environ>>
    ELSE /\ environ' = load_dotenv_override
         /\ settings' = SyncedSettings(load_dotenv_override)
         /\ env_synced = (settings' # settings)

\* ConfigSyncService.sync_to_env on an instance created for the call: set_key rewrites the file.
sync_to_env(db_key, value) ==
    /\ env_file' = [env_file EXCEPT ![reverse_map(db_key)] = value]
    /\ env_mtime' = env_mtime + 1


\* ----------------------------------------------------------- the clock ----
AdvanceClock ==
    /\ now + ClockStep <= MaxTime
    /\ now' = now + ClockStep
    /\ UNCHANGED <<users, valuations, settings, env_file, env_mtime, environ,
                   REMINDER_ENABLED, main, notifvars, sched, run, bc, delivered, failed_once,
                   last_activity, appvars>>

\* ------------------------------------------------------- inbound path ----
\* /start
cmd_start(u) ==
    /\ add_user(u)
    /\ UNCHANGED <<now, settings, env_file, env_mtime, environ, REMINDER_ENABLED, main, notifvars,
                   sched, run, bc, delivered, failed_once,
                   appvars>>

\* A successful appraisal: evaluate_username reaches create_valuation.
evaluate_username(u) ==
    /\ Len(valuations) < MaxValuations
    /\ create_valuation(u)
    /\ UNCHANGED <<now, settings, env_file, env_mtime, environ, REMINDER_ENABLED, main, notifvars,
                   sched, run, bc, delivered, failed_once,
                   last_activity, appvars>>

\* The user contacts an operator.
ContactManager(u) ==
    /\ mark_manager_contacted(u)
    /\ UNCHANGED <<now, settings, env_file, env_mtime, environ, REMINDER_ENABLED, main, notifvars,
                   sched, run, bc, delivered, failed_once,
                   last_activity, appvars>>

\* The explicit unblock.
Unblock(u) ==
    /\ mark_user_unblocked(u)
    /\ UNCHANGED <<now, settings, env_file, env_mtime, environ, REMINDER_ENABLED, main, notifvars,
                   sched, run, bc, delivered, failed_once,
                   last_activity, appvars>>

\* --------------------------------------------------- operator settings ----
\* Variant of ValidSettingInput without the upper limit.
ValidSettingInput_NoUpperLimit(text, lo, hi) ==
    /\ ParsesAsInt(text)
    /\ IntValue[text] >= lo

\* The validation of process_reminder_interval / process_reminder_delay.
ValidSettingInput(text, lo, hi) ==
    /\ ParsesAsInt(text)
    /\ IntValue[text] >= lo
    /\ IntValue[text] <= hi

\* AdminCheckMiddleware.__call__, registered for messages and callback queries:
\* what becomes of an update with this text (message) or data (callback).
\* startswith of the text of a message without text raises AttributeError.
AdminCheckMiddleware(from_user, is_message, content) ==
    IF is_message /\ content = NoText THEN "raises"
    ELSE IF /\ from_user \notin ADMIN_IDS
            /\ \/ is_message /\ content \in {"/admin", "/stats"}
               \/ ~is_message /\ content \in {"admin_notif_toggle_new_users",
                                               "admin_notif_toggle_orders",
                                               "admin_notif_toggle_abandoned"}
         THEN "denied"
    ELSE "handler"

\* The answer to a text that is not saved: int() of text that is no integer
\* raises ValueError.
Rejection(text) ==
    IF ~ParsesAsInt(text) THEN "not_integer" ELSE "invalid_range"

\* Callback settings_reminder_interval: an operator opens the interval dialog.
callback_set_reminder_interval(from_user) ==
    /\ dialog' = [dialog EXCEPT ![from_user] =
                     IF from_user \in ADMIN_IDS
                     THEN [@ EXCEPT !.state = "waiting_for_reminder_interval",
                                    !.text = "", !.reply = "prompt"]
                     ELSE [@ EXCEPT !.text = "", !.reply = "no_access"]]
    /\ UNCHANGED <<now, users, valuations, pipelinevars, last_activity,
                   username_valuations, calls, events, listing, valuation_data>>

\* Callback settings_reminder_delay: an operator opens the delay dialog.
callback_set_reminder_delay(from_user) ==
    /\ dialog' = [dialog EXCEPT ![from_user] =
                     IF from_user \in ADMIN_IDS
                     THEN [@ EXCEPT !.state = "waiting_for_reminder_delay",
                                    !.text = "", !.reply = "prompt"]
                     ELSE [@ EXCEPT !.text = "", !.reply = "no_access"]]
    /\ UNCHANGED <<now, users, valuations, pipelinevars, last_activity,
                   username_valuations, calls, events, listing, valuation_data>>

\* state.clear(): the state and the data of the sender's FSM context.
StateClear(d) ==
    [d EXCEPT !.state = "none", !.broadcast_type = NoText, !.broadcast_photo = NoText,
              !.broadcast_text = NoText, !.dispatched = 0]

\* Message in SettingsStates.waiting_for_reminder_interval.
process_reminder_interval(from_user, text) ==
    /\ dialog[from_user].state = "waiting_for_reminder_interval"
    /\ IF AdminCheckMiddleware(from_user, TRUE, text) # "handler" \/ from_user \notin ADMIN_IDS
       THEN /\ dialog' = [dialog EXCEPT ![from_user].text = text, ![from_user].reply = "none"]
            /\ UNCHANGED <<settings, env_file, env_mtime>>
       ELSE IF ValidSettingInput(text, 1, 60)
       THEN /\ env_mtime < MaxEnvWrites
            /\ settings' = set_system_setting("reminder_check_interval", StrOfInt(IntValue[text]))
            /\ sync_to_env("reminder_check_interval", StrOfInt(IntValue[text]))
            /\ dialog' = [dialog EXCEPT ![from_user] =
                             [StateClear(@) EXCEPT !.text = text, !.reply = "updated"]]
       ELSE /\ dialog' = [dialog EXCEPT ![from_user].text = text,
                                        ![from_user].reply = Rejection(text)]
            /\ UNCHANGED <<settings, env_file, env_mtime>>
    /\ UNCHANGED <<now, users, valuations, environ, REMINDER_ENABLED, main, notifvars, sched, run, bc,
                   delivered, failed_once,
                   last_activity, username_valuations, calls, events, listing, valuation_data>>

\* Message in SettingsStates.waiting_for_reminder_delay.
process_reminder_delay(from_user, text) ==
    /\ dialog[from_user].state = "waiting_for_reminder_delay"
    /\ IF AdminCheckMiddleware(from_user, TRUE, text) # "handler" \/ from_user \notin ADMIN_IDS
       THEN /\ dialog' = [dialog EXCEPT ![from_user].text = text, ![from_user].reply = "none"]
            /\ UNCHANGED <<settings, env_file, env_mtime>>
       ELSE IF ValidSettingInput(text, 1, 1440)
       THEN /\ env_mtime < MaxEnvWrites
            /\ settings' = set_system_setting("reminder_delay_minutes", StrOfInt(IntValue[text]))
            /\ sync_to_env("reminder_delay_minutes", StrOfInt(IntValue[text]))
            /\ dialog' = [dialog EXCEPT ![from_user] =
                             [StateClear(@) EXCEPT !.text = text, !.reply = "updated"]]
       ELSE /\ dialog' = [dialog EXCEPT ![from_user].text = text,
                                        ![from_user].reply = Rejection(text)]
            /\ UNCHANGED <<settings, env_file, env_mtime>>
    /\ UNCHANGED <<now, users, valuations, environ, REMINDER_ENABLED, main, notifvars, sched, run, bc,
                   delivered, failed_once,
                   last_activity, username_valuations, calls, events, listing, valuation_data>>

EditEnvFile(k, v) ==
    /\ env_mtime < MaxEnvWrites
    /\ env_file[k] # v
    /\ env_file' = [env_file EXCEPT ![k] = v]
    /\ env_mtime' = env_mtime + 1
    /\ UNCHANGED <<now, users, valuations, settings, environ, REMINDER_ENABLED, main, notifvars, sched, run,
                   bc, delivered, failed_once,
                   last_activity, appvars>>

\* ------------------------------------------------------- reminder_task ----
\* Variant of IntervalMinutes that keeps the default whatever is stored.
IntervalMinutes_IgnoresStored(stored) == DefaultIntervalMinutes

\* The interval the tick compares against, read after the sync.
IntervalMinutes(stored) == IntOrDefault(stored, DefaultIntervalMinutes)

\* should_check of reminder_task.
ShouldCheck(last_check_time, current_time, interval_minutes) ==
    \/ last_check_time = NoTime
    \/ current_time - last_check_time >= interval_minutes * SecondsPerMinute

\* if not REMINDER_ENABLED: return
StartTask ==
    /\ sched.pc = "start"
    /\ sched' = [sched EXCEPT !.pc = IF REMINDER_ENABLED THEN "tick" ELSE "stopped"]
    /\ UNCHANGED <<now, users, valuations, settings, env_file, env_mtime, environ,
                   REMINDER_ENABLED, main, notifvars, run, bc, delivered, failed_once,
                   last_activity, appvars>>

\* One pass of the loop body up to the decision: sync, read the interval, decide.
Tick ==
    /\ sched.pc = "tick"
    /\ \E env_synced \in BOOLEAN :
          /\ check_and_sync(env_synced)
          /\ LET check == ShouldCheck(sched.last_check_time, now,
                                      IntervalMinutes(settings'["reminder_check_interval"]))
             IN /\ sched' = [sched EXCEPT
                                !.last_modified = env_mtime,
                                !.env_synced = env_synced,
                                !.pc = IF check THEN "checking" ELSE "sleep",
                                !.current_time = IF check THEN now ELSE NoTime,
                                !.wake_time = IF check THEN NoTime ELSE now + SleepSeconds]
                /\ run' = IF check
                          THEN [run EXCEPT ![SchedulerRun] = [IdleRun EXCEPT !.pc = "select"]]
                          ELSE run
    /\ UNCHANGED <<now, users, valuations, env_file, env_mtime, REMINDER_ENABLED, main, notifvars, bc,
                   delivered, failed_once,
                   last_activity, appvars>>

\* process_reminders returned: last_check_time = current_time, then asyncio.sleep(10).
FinishCheck ==
    /\ sched.pc = "checking"
    /\ run[SchedulerRun].pc = "done"
    /\ sched' = [sched EXCEPT !.pc = "sleep", !.last_check_time = sched.current_time,
                              !.current_time = NoTime, !.wake_time = now + SleepSeconds]
    /\ run' = [run EXCEPT ![SchedulerRun] = IdleRun]
    /\ UNCHANGED <<now, users, valuations, settings, env_file, env_mtime, environ,
                   REMINDER_ENABLED, main, notifvars, bc, delivered, failed_once,
                   last_activity, appvars>>

\* asyncio.sleep returns.
Wake ==
    /\ sched.pc = "sleep"
    /\ now >= sched.wake_time
    /\ sched' = [sched EXCEPT !.pc = "tick", !.wake_time = NoTime]
    /\ UNCHANGED <<now, users, valuations, settings, env_file, env_mtime, environ,
                   REMINDER_ENABLED, main, notifvars, run, bc, delivered, failed_once,
                   last_activity, appvars>>

\* The positions of reminder_task at which the coroutine exists and has not returned.
TaskAlive == sched.pc \in {"start", "tick", "checking", "sleep", "error_sleep"}

\* except Exception: an exception escaped the tick before process_reminders was
\* called (get_system_setting raised); check_and_sync has either completed or
\* caught its own failure after re-reading the file. Then asyncio.sleep(60).
TickRaises ==
    /\ sched.pc = "tick"
    /\ now + ErrorSleepSeconds <= MaxTime
    /\ \/ \E env_synced \in BOOLEAN : check_and_sync(env_synced)
       \/ /\ environ' = IF sched.last_modified = NoTime \/ sched.last_modified = env_mtime
                         THEN environ ELSE load_dotenv_override
          /\ UNCHANGED settings
    /\ sched' = [sched EXCEPT !.pc = "error_sleep", !.last_modified = env_mtime,
                              !.wake_time = now + ErrorSleepSeconds, !.errors = @ + 1]
    /\ UNCHANGED <<now, users, valuations, env_file, env_mtime, REMINDER_ENABLED, main,
                   notifvars, run, bc, delivered, failed_once,
                   last_activity, appvars>>

\* Variant of CheckRaises in which the exception ends the loop.
CheckRaises_EndsLoop ==
    /\ sched.pc = "checking"
    /\ run[SchedulerRun].pc \in {"select", "send", "mark_blocked"}
    /\ now + ErrorSleepSeconds <= MaxTime
    /\ run' = [run EXCEPT ![SchedulerRun] = IdleRun]
    /\ sched' = [sched EXCEPT !.pc = "ended", !.current_time = NoTime, !.errors = @ + 1]
    /\ UNCHANGED <<now, users, valuations, settings, env_file, env_mtime, environ,
                   REMINDER_ENABLED, main, notifvars, bc, delivered, failed_once,
                   last_activity, appvars>>

\* except Exception: process_reminders raised (the store failed in
\* check_pending_reminders, get_language or mark_user_blocked, or the locale file
\* could not be read); last_check_time is not assigned. Then asyncio.sleep(60).
CheckRaises ==
    /\ sched.pc = "checking"
    /\ run[SchedulerRun].pc \in {"select", "send", "mark_blocked"}
    /\ now + ErrorSleepSeconds <= MaxTime
    /\ run' = [run EXCEPT ![SchedulerRun] = IdleRun]
    /\ sched' = [sched EXCEPT !.pc = "error_sleep", !.current_time = NoTime,
                              !.wake_time = now + ErrorSleepSeconds, !.errors = @ + 1]
    /\ UNCHANGED <<now, users, valuations, settings, env_file, env_mtime, environ,
                   REMINDER_ENABLED, main, notifvars, bc, delivered, failed_once,
                   last_activity, appvars>>

\* asyncio.sleep(60) returns: the while loop continues.
WakeAfterError ==
    /\ sched.pc = "error_sleep"
    /\ now >= sched.wake_time
    /\ sched' = [sched EXCEPT !.pc = "tick", !.wake_time = NoTime]
    /\ UNCHANGED <<now, users, valuations, settings, env_file, env_mtime, environ,
                   REMINDER_ENABLED, main, notifvars, run, bc, delivered, failed_once,
                   last_activity, appvars>>

\* main(): start_polling returned or raised; finally: reminder_task_handle.cancel()
\* when the task was created, then await reminder_task_handle.
MainShutdown ==
    /\ main.pc = "polling"
    /\ main' = IF REMINDER_ENABLED
               THEN [main EXCEPT !.pc = "awaiting_task", !.cancelled = TRUE,
                                 !.must_cancel = TaskAlive]
               ELSE [main EXCEPT !.pc = "closing"]
    /\ UNCHANGED <<now, users, valuations, settings, env_file, env_mtime, environ,
                   REMINDER_ENABLED, notifvars, sched, run, bc, delivered, failed_once,
                   last_activity, appvars>>

\* Variant of TaskCancelled in which a CancelledError thrown during a check is
\* taken for a failed delivery and the loop goes on.
TaskCancelled_SwallowedInCheck ==
    /\ main.must_cancel
    /\ main' = [main EXCEPT !.must_cancel = FALSE]
    /\ IF sched.pc = "checking"
       THEN UNCHANGED <<sched, run>>
       ELSE /\ sched' = [sched EXCEPT !.pc = "ended", !.current_time = NoTime,
                                      !.wake_time = NoTime]
            /\ run' = [run EXCEPT ![SchedulerRun] = IdleRun]
    /\ UNCHANGED <<now, users, valuations, settings, env_file, env_mtime, environ,
                   REMINDER_ENABLED, notifvars, bc, delivered, failed_once,
                   last_activity, appvars>>

\* CancelledError is thrown into the task at the await it is suspended on: inside
\* the try it is caught and the loop breaks; inside the except handler's sleep, or
\* before the first step, it ends the coroutine.
TaskCancelled ==
    /\ main.must_cancel
    /\ main' = [main EXCEPT !.must_cancel = FALSE]
    /\ sched' = [sched EXCEPT !.pc = "ended", !.current_time = NoTime, !.wake_time = NoTime]
    /\ run' = [run EXCEPT ![SchedulerRun] = IdleRun]
    /\ UNCHANGED <<now, users, valuations, settings, env_file, env_mtime, environ,
                   REMINDER_ENABLED, notifvars, bc, delivered, failed_once,
                   last_activity, appvars>>

\* await reminder_task_handle returns (or raises CancelledError, which is passed).
MainTaskAwaited ==
    /\ main.pc = "awaiting_task"
    /\ ~TaskAlive
    /\ main' = [main EXCEPT !.pc = "closing"]
    /\ UNCHANGED <<now, users, valuations, settings, env_file, env_mtime, environ,
                   REMINDER_ENABLED, notifvars, sched, run, bc, delivered, failed_once,
                   last_activity, appvars>>

\* await db.close(); await bot.session.close()
MainClose ==
    /\ main.pc = "closing"
    /\ main' = [main EXCEPT !.pc = "closed", !.pool = "closed"]
    /\ UNCHANGED <<now, users, valuations, settings, env_file, env_mtime, environ,
                   REMINDER_ENABLED, notifvars, sched, run, bc, delivered, failed_once,
                   last_activity, appvars>>

\* --------------------------------------------------- process_reminders ----
Outcomes == {"ok", "forbidden", "bad_request", "error"}

\* The loop moves to the next selected user, or the run returns its stats.
NextUser(r, counted) ==
    [counted EXCEPT !.todo = Tail(run[r].todo),
                    !.pc = IF Len(run[r].todo) > 1 THEN "send" ELSE "done"]

\* check_pending_reminders: read the delay, run the selection.
Select(r) ==
    /\ run[r].pc = "select"
    /\ \E rows \in get_users_for_reminder(
                      IntOrDefault(get_system_setting("reminder_delay_minutes", "15"),
                                   DefaultDelayMinutes)) :
           run' = [run EXCEPT ![r] = [pc |-> IF rows = <<>> THEN "done" ELSE "send",
                                      todo |-> rows, total |-> Len(rows),
                                      sent |-> 0, failed |-> 0]]
    /\ UNCHANGED <<now, users, valuations, settings, env_file, env_mtime, environ,
                   REMINDER_ENABLED, main, notifvars, sched, bc, delivered, failed_once,
                   last_activity, appvars>>

\* Variant of Send that treats every failed delivery as a block.
Send_EveryFailureBlocks(r, outcome) ==
    /\ run[r].pc = "send"
    /\ LET row == Head(run[r].todo) IN
       CASE outcome = "ok" ->
              /\ delivered' = [delivered EXCEPT ![row.valuation_id] = @ + 1]
              /\ run' = [run EXCEPT ![r].pc = "mark_sent"]
              /\ UNCHANGED <<failed_once, users, valuations>>
         [] outcome = "forbidden" ->
              /\ run' = [run EXCEPT ![r].pc = "mark_blocked"]
              /\ UNCHANGED <<delivered, failed_once, users, valuations>>
         [] OTHER ->
              /\ run' = [run EXCEPT ![r] = NextUser(r, [run[r] EXCEPT !.failed = @ + 1])]
              /\ failed_once' = failed_once \cup {row.valuation_id}
              /\ users' = [users EXCEPT ![row.user_id].is_bot_blocked = TRUE]
              /\ UNCHANGED <<delivered, valuations>>
    /\ UNCHANGED <<now, settings, env_file, env_mtime, environ, REMINDER_ENABLED, main, notifvars, sched, bc,
                   last_activity, appvars>>

\* send_reminder up to the return of bot.send_message.
Send(r, outcome) ==
    /\ run[r].pc = "send"
    /\ LET row == Head(run[r].todo) IN
       CASE outcome = "ok" ->
              /\ delivered' = [delivered EXCEPT ![row.valuation_id] = @ + 1]
              /\ run' = [run EXCEPT ![r].pc = "mark_sent"]
              /\ UNCHANGED failed_once
         [] outcome = "forbidden" ->
              /\ run' = [run EXCEPT ![r].pc = "mark_blocked"]
              /\ UNCHANGED <<delivered, failed_once>>
         [] OTHER ->
              /\ run' = [run EXCEPT ![r] = NextUser(r, [run[r] EXCEPT !.failed = @ + 1])]
              /\ failed_once' = failed_once \cup {row.valuation_id}
              /\ UNCHANGED delivered
    /\ UNCHANGED <<now, users, valuations, settings, env_file, env_mtime, environ,
                   REMINDER_ENABLED, main, notifvars, sched, bc,
                   last_activity, appvars>>

\* send_reminder after a delivery: mark_reminder_sent, return True.
MarkSent(r) ==
    /\ run[r].pc = "mark_sent"
    /\ mark_reminder_sent(Head(run[r].todo).user_id)
    /\ run' = [run EXCEPT ![r] = NextUser(r, [run[r] EXCEPT !.sent = @ + 1])]
    /\ UNCHANGED <<now, settings, env_file, env_mtime, environ, REMINDER_ENABLED, main, notifvars, sched, bc,
                   delivered, failed_once,
                   last_activity, appvars>>

\* Variant of MarkSentFails that counts the delivered reminder as sent.
MarkSentFails_CountsSent(r) ==
    /\ run[r].pc = "mark_sent"
    /\ run' = [run EXCEPT ![r] = NextUser(r, [run[r] EXCEPT !.sent = @ + 1])]
    /\ UNCHANGED <<now, users, valuations, settings, env_file, env_mtime, environ,
                   REMINDER_ENABLED, main, notifvars, sched, bc, delivered, failed_once,
                   last_activity, appvars>>

\* send_reminder after a delivery when mark_reminder_sent raises: the exception is
\* caught by except Exception inside send_reminder, which returns False.
MarkSentFails(r) ==
    /\ run[r].pc = "mark_sent"
    /\ run' = [run EXCEPT ![r] = NextUser(r, [run[r] EXCEPT !.failed = @ + 1])]
    /\ UNCHANGED <<now, users, valuations, settings, env_file, env_mtime, environ,
                   REMINDER_ENABLED, main, notifvars, sched, bc, delivered, failed_once,
                   last_activity, appvars>>

\* send_reminder after TelegramForbiddenError: mark_user_blocked, return False.
MarkBlocked(r) ==
    /\ run[r].pc = "mark_blocked"
    /\ mark_user_blocked(Head(run[r].todo).user_id)
    /\ run' = [run EXCEPT ![r] = NextUser(r, [run[r] EXCEPT !.failed = @ + 1])]
    /\ UNCHANGED <<now, settings, env_file, env_mtime, environ, REMINDER_ENABLED, main, notifvars, sched, bc,
                   delivered, failed_once,
                   last_activity, appvars>>

\* ---------------------------------------------------- execute_broadcast ----
\* callback_broadcast_confirm shows the status message and calls execute_broadcast:
\* users = await self.get_active_users(); total = len(users)
BroadcastStart ==
    /\ bc.pc = "idle"
    /\ bc' = [IdleBroadcast EXCEPT
                 !.pc = IF get_active_users_for_broadcast = <<>> THEN "done" ELSE "sending",
                 !.users = get_active_users_for_broadcast,
                 !.todo = get_active_users_for_broadcast,
                 !.total = Len(get_active_users_for_broadcast),
                 !.shown = "status"]
    /\ UNCHANGED <<now, users, valuations, settings, env_file, env_mtime, environ,
                   REMINDER_ENABLED, main, notifvars, sched, run, delivered, failed_once,
                   last_activity, appvars>>

\* Variant of BroadcastStartRaises in which the failure of the store is taken for
\* an empty target list.
BroadcastStartRaises_ReturnsEmpty ==
    /\ bc.pc = "idle"
    /\ bc' = [IdleBroadcast EXCEPT !.pc = "done", !.aborted = TRUE, !.shown = "status"]
    /\ UNCHANGED <<now, users, valuations, settings, env_file, env_mtime, environ,
                   REMINDER_ENABLED, main, notifvars, sched, run, delivered, failed_once,
                   last_activity, appvars>>

\* The store is unavailable: get_active_users raises out of execute_broadcast.
BroadcastStartRaises ==
    /\ bc.pc = "idle"
    /\ bc' = [IdleBroadcast EXCEPT !.pc = "raised", !.aborted = TRUE, !.shown = "status"]
    /\ UNCHANGED <<now, users, valuations, settings, env_file, env_mtime, environ,
                   REMINDER_ENABLED, main, notifvars, sched, run, delivered, failed_once,
                   last_activity, appvars>>

\* Variant of BroadcastSend that counts a blocked recipient as blocked and as failed.
BroadcastSend_BlockedAlsoFailed(outcome) ==
    /\ bc.pc = "sending"
    /\ LET u == Head(bc.todo)
           counted == CASE outcome = "ok" -> [bc EXCEPT !.success = @ + 1]
                        [] outcome = "forbidden" -> [bc EXCEPT !.blocked = @ + 1, !.failed = @ + 1]
                        [] OTHER -> [bc EXCEPT !.failed = @ + 1]
       IN /\ IF outcome = "forbidden" THEN mark_user_blocked(u) ELSE UNCHANGED <<users, valuations>>
          /\ bc' = [counted EXCEPT !.todo = Tail(bc.todo), !.last_outcome = outcome,
                                   !.pc = IF Len(bc.todo) > 1 THEN "sending" ELSE "done"]
    /\ UNCHANGED <<now, settings, env_file, env_mtime, environ, REMINDER_ENABLED, main,
                   notifvars, sched, run, delivered, failed_once,
                   last_activity, appvars>>

\* Variant of BroadcastSend in which a send error other than a block or a bad
\* request is not caught.
BroadcastSend_OtherErrorRaises(outcome) ==
    /\ bc.pc = "sending"
    /\ LET u == Head(bc.todo)
           counted == CASE outcome = "ok" -> [bc EXCEPT !.success = @ + 1]
                        [] outcome = "forbidden" -> [bc EXCEPT !.blocked = @ + 1]
                        [] outcome = "bad_request" -> [bc EXCEPT !.failed = @ + 1]
                        [] OTHER -> bc
       IN /\ IF outcome = "forbidden" THEN mark_user_blocked(u) ELSE UNCHANGED <<users, valuations>>
          /\ bc' = [counted EXCEPT !.todo = Tail(bc.todo), !.last_outcome = outcome,
                                   !.pc = IF outcome \notin {"ok", "forbidden", "bad_request"}
                                          THEN "raised"
                                          ELSE IF Len(bc.todo) > 1 THEN "sending" ELSE "done"]
    /\ UNCHANGED <<now, settings, env_file, env_mtime, environ, REMINDER_ENABLED, main,
                   notifvars, sched, run, delivered, failed_once,
                   last_activity, appvars>>

\* Variant of BroadcastSend that counts a blocked recipient in the failed bucket.
BroadcastSend_BlockedCountedFailed(outcome) ==
    /\ bc.pc = "sending"
    /\ LET u == Head(bc.todo)
           counted == CASE outcome = "ok" -> [bc EXCEPT !.success = @ + 1]
                        [] OTHER -> [bc EXCEPT !.failed = @ + 1]
       IN /\ IF outcome = "forbidden" THEN mark_user_blocked(u) ELSE UNCHANGED <<users, valuations>>
          /\ bc' = [counted EXCEPT !.todo = Tail(bc.todo), !.last_outcome = outcome,
                                   !.pc = IF Len(bc.todo) > 1 THEN "sending" ELSE "done"]
    /\ UNCHANGED <<now, settings, env_file, env_mtime, environ, REMINDER_ENABLED, main,
                   notifvars, sched, run, delivered, failed_once,
                   last_activity, appvars>>

\* One iteration of the loop: send_broadcast_message and the count.
BroadcastSend(outcome) ==
    /\ bc.pc = "sending"
    /\ LET u == Head(bc.todo)
           counted == CASE outcome = "ok" -> [bc EXCEPT !.success = @ + 1]
                        [] outcome = "forbidden" -> [bc EXCEPT !.blocked = @ + 1]
                        [] OTHER -> [bc EXCEPT !.failed = @ + 1]
       IN /\ IF outcome = "forbidden" THEN mark_user_blocked(u) ELSE UNCHANGED <<users, valuations>>
          /\ bc' = [counted EXCEPT !.todo = Tail(bc.todo), !.last_outcome = outcome,
                                   !.pc = IF Len(bc.todo) > 1 THEN "sending" ELSE "done"]
    /\ UNCHANGED <<now, settings, env_file, env_mtime, environ, REMINDER_ENABLED, main,
                   notifvars, sched, run, delivered, failed_once,
                   last_activity, appvars>>

\* The delivery was rejected as blocked and the store fails in mark_user_blocked:
\* the exception leaves the except handler and execute_broadcast.
BroadcastSendRaises ==
    /\ bc.pc = "sending"
    /\ bc' = [bc EXCEPT !.pc = "raised", !.last_outcome = "forbidden", !.aborted = TRUE]
    /\ UNCHANGED <<now, users, valuations, settings, env_file, env_mtime, environ,
                   REMINDER_ENABLED, main, notifvars, sched, run, delivered, failed_once,
                   last_activity, appvars>>

\* execute_broadcast returns its stats; the handler shows the results.
BroadcastFinish ==
    /\ bc.pc = "done"
    /\ bc' = [IdleBroadcast EXCEPT !.shown = "report", !.aborted = bc.aborted]
    /\ UNCHANGED <<now, users, valuations, settings, env_file, env_mtime, environ,
                   REMINDER_ENABLED, main, notifvars, sched, run, delivered, failed_once,
                   last_activity, appvars>>

\* execute_broadcast raised: the handler replaces the status message by an error text.
BroadcastShowError ==
    /\ bc.pc = "raised"
    /\ bc' = [IdleBroadcast EXCEPT !.shown = "error", !.aborted = bc.aborted]
    /\ UNCHANGED <<now, users, valuations, settings, env_file, env_mtime, environ,
                   REMINDER_ENABLED, main, notifvars, sched, run, delivered, failed_once,
                   last_activity, appvars>>

\* ------------------------------------------------ the broadcast dialog ----
\* Callback broadcast_start.
callback_broadcast_start(from_user) ==
    /\ dialog' = [dialog EXCEPT ![from_user] =
                     IF from_user \in ADMIN_IDS
                     THEN [@ EXCEPT !.state = "waiting_for_message_type", !.reply = "choose_type"]
                     ELSE [@ EXCEPT !.reply = "no_access"]]
    /\ UNCHANGED <<now, users, valuations, pipelinevars, last_activity,
                   username_valuations, calls, events, listing, valuation_data>>

\* Callbacks broadcast_type_text and broadcast_type_photo.
callback_broadcast_type(from_user, type) ==
    /\ dialog' = [dialog EXCEPT ![from_user] =
                     IF from_user \in ADMIN_IDS
                     THEN [@ EXCEPT !.broadcast_type = type,
                                    !.state = IF type = "photo" THEN "waiting_for_photo"
                                                                ELSE "waiting_for_text",
                                    !.reply = "prompt"]
                     ELSE [@ EXCEPT !.reply = "no_access"]]
    /\ UNCHANGED <<now, users, valuations, pipelinevars, last_activity,
                   username_valuations, calls, events, listing, valuation_data>>

\* Message in BroadcastStates.waiting_for_text.
handle_broadcast_text(from_user, text) ==
    /\ dialog[from_user].state = "waiting_for_text"
    /\ dialog' = [dialog EXCEPT ![from_user] =
                     IF AdminCheckMiddleware(from_user, TRUE, text) # "handler"
                        \/ from_user \notin ADMIN_IDS
                     THEN [@ EXCEPT !.text = text, !.reply = "none"]
                     ELSE [@ EXCEPT !.text = text, !.broadcast_text = text, !.dispatched = 0,
                                    !.state = "confirm_broadcast", !.reply = "preview"]]
    /\ UNCHANGED <<now, users, valuations, pipelinevars, last_activity,
                   username_valuations, calls, events, listing, valuation_data>>

\* Message with a photo in BroadcastStates.waiting_for_photo: the text of a
\* photo message is None, with or without a caption.
handle_broadcast_photo(from_user, file_id) ==
    /\ dialog[from_user].state = "waiting_for_photo"
    /\ dialog' = [dialog EXCEPT ![from_user] =
                     IF AdminCheckMiddleware(from_user, TRUE, NoText) # "handler"
                        \/ from_user \notin ADMIN_IDS
                     THEN [@ EXCEPT !.text = NoText, !.reply = "none"]
                     ELSE [@ EXCEPT !.text = NoText, !.broadcast_photo = file_id,
                                    !.state = "waiting_for_caption", !.reply = "prompt"]]
    /\ UNCHANGED <<now, users, valuations, pipelinevars, last_activity,
                   username_valuations, calls, events, listing, valuation_data>>

\* Message in BroadcastStates.waiting_for_caption.
handle_broadcast_caption(from_user, text) ==
    /\ dialog[from_user].state = "waiting_for_caption"
    /\ dialog' = [dialog EXCEPT ![from_user] =
                     IF AdminCheckMiddleware(from_user, TRUE, text) # "handler"
                        \/ from_user \notin ADMIN_IDS
                     THEN [@ EXCEPT !.text = text, !.reply = "none"]
                     ELSE [@ EXCEPT !.text = text, !.broadcast_text = text, !.dispatched = 0,
                                    !.state = "confirm_broadcast", !.reply = "preview"]]
    /\ UNCHANGED <<now, users, valuations, pipelinevars, last_activity,
                   username_valuations, calls, events, listing, valuation_data>>

\* Callback broadcast_edit_text: back to the text or to the caption.
callback_broadcast_edit_text(from_user) ==
    /\ dialog' = [dialog EXCEPT ![from_user] =
                     IF from_user \in ADMIN_IDS
                     THEN [@ EXCEPT !.state = IF dialog[from_user].broadcast_type = "photo"
                                              THEN "waiting_for_caption"
                                              ELSE "waiting_for_text",
                                    !.reply = "prompt"]
                     ELSE [@ EXCEPT !.reply = "no_access"]]
    /\ UNCHANGED <<now, users, valuations, pipelinevars, last_activity,
                   username_valuations, calls, events, listing, valuation_data>>

\* Callback broadcast_cancel: state.clear() for whoever presses it.
callback_broadcast_cancel(from_user) ==
    /\ dialog' = [dialog EXCEPT ![from_user] = [StateClear(@) EXCEPT !.reply = "cancelled"]]
    /\ UNCHANGED <<now, users, valuations, pipelinevars, last_activity,
                   username_valuations, calls, events, listing, valuation_data>>

\* Variant of callback_broadcast_confirm without the check of the sender.
callback_broadcast_confirm_NoAdminCheck(from_user) ==
    /\ bc.pc = "idle"
    /\ dialog[from_user].confirming < MaxConfirms
    /\ LET targets == get_active_users_for_broadcast
           stored == dialog[from_user].broadcast_text # NoText
       IN /\ bc' = IF stored
                   THEN [IdleBroadcast EXCEPT
                            !.pc = IF targets = <<>> THEN "done" ELSE "sending",
                            !.users = targets, !.todo = targets,
                            !.total = Len(targets), !.shown = "status"]
                   ELSE [IdleBroadcast EXCEPT
                            !.pc = "done", !.users = targets, !.total = Len(targets),
                            !.failed = Len(targets),
                            !.last_outcome = IF targets = <<>> THEN "none" ELSE "error",
                            !.shown = "status"]
          /\ dialog' = [dialog EXCEPT ![from_user] =
                           [@ EXCEPT !.dispatched = IF stored /\ targets # <<>> THEN @ + 1 ELSE @,
                                     !.confirming = @ + 1, !.reply = "status"]]
    /\ UNCHANGED <<now, users, valuations, settings, env_file, env_mtime, environ,
                   REMINDER_ENABLED, main, notifvars, sched, run, delivered, failed_once,
                   last_activity, username_valuations, calls, events, listing, valuation_data>>

\* Callback broadcast_confirm, whatever the FSM state of the sender: the draft
\* is read from the FSM data and execute_broadcast starts with it. Without a
\* stored text every delivery fails on the missing text. confirming counts the
\* invocations that have not reached their state.clear(), dispatched the runs
\* started with the stored draft for at least one target.
callback_broadcast_confirm(from_user) ==
    IF from_user \notin ADMIN_IDS
    THEN /\ dialog' = [dialog EXCEPT ![from_user].reply = "no_access"]
         /\ UNCHANGED <<now, users, valuations, pipelinevars, last_activity,
                        username_valuations, calls, events, listing, valuation_data>>
    ELSE /\ bc.pc = "idle"
         /\ dialog[from_user].confirming < MaxConfirms
         /\ LET targets == get_active_users_for_broadcast
                stored == dialog[from_user].broadcast_text # NoText
            IN /\ bc' = IF stored
                        THEN [IdleBroadcast EXCEPT
                                 !.pc = IF targets = <<>> THEN "done" ELSE "sending",
                                 !.users = targets, !.todo = targets,
                                 !.total = Len(targets), !.shown = "status"]
                        ELSE [IdleBroadcast EXCEPT
                                 !.pc = "done", !.users = targets, !.total = Len(targets),
                                 !.failed = Len(targets),
                                 !.last_outcome = IF targets = <<>> THEN "none" ELSE "error",
                                 !.shown = "status"]
               /\ dialog' = [dialog EXCEPT ![from_user] =
                                [@ EXCEPT !.dispatched = IF stored /\ targets # <<>> THEN @ + 1 ELSE @,
                                          !.confirming = @ + 1, !.reply = "status"]]
         /\ UNCHANGED <<now, users, valuations, settings, env_file, env_mtime, environ,
                        REMINDER_ENABLED, main, notifvars, sched, run, delivered, failed_once,
                        last_activity, username_valuations, calls, events, listing,
                        valuation_data>>

\* The state.clear() that ends an invocation of callback_broadcast_confirm,
\* after the results or the error text were shown. A run in progress belongs
\* to the invocation that started last.
BroadcastStateClear(from_user) ==
    /\ dialog[from_user].confirming > IF bc.pc = "idle" THEN 0 ELSE 1
    /\ dialog' = [dialog EXCEPT ![from_user] = [StateClear(@) EXCEPT !.confirming = @ - 1]]
    /\ UNCHANGED <<now, users, valuations, pipelinevars, last_activity,
                   username_valuations, calls, events, listing, valuation_data>>

\* process_reminders called from outside the scheduler loop (invocation r).
CheckStart(r) ==
    /\ run[r].pc = "idle"
    /\ run' = [run EXCEPT ![r] = [IdleRun EXCEPT !.pc = "select"]]
    /\ UNCHANGED <<now, users, valuations, settings, env_file, env_mtime, environ,
                   REMINDER_ENABLED, main, notifvars, sched, bc, delivered, failed_once,
                   last_activity, appvars>>

\* That invocation returns its stats.
CheckReturn(r) ==
    /\ run[r].pc = "done"
    /\ run' = [run EXCEPT ![r] = IdleRun]
    /\ UNCHANGED <<now, users, valuations, settings, env_file, env_mtime, environ,
                   REMINDER_ENABLED, main, notifvars, sched, bc, delivered, failed_once,
                   last_activity, appvars>>

\* -------------------------------------------------------- specification ----
Inbound ==
    \/ \E u \in Users : cmd_start(u)
    \/ \E u \in Users : evaluate_username(u)
    \/ \E u \in Users : ContactManager(u)
    \/ \E u \in Users : Unblock(u)

Operator ==
    \/ callback_set_reminder_interval(1)
    \/ callback_set_reminder_delay(1)
    \/ \E text \in {"2", "0", "61", "abc", NoText} : process_reminder_interval(1, text)
    \/ \E text \in {"1", "2", "0", "1441", "abc", NoText} : process_reminder_delay(1, text)
    \* An edit of the .env file from outside the bot.
    \/ \E e \in {<<"REMINDER_ENABLED", "false">>, <<"REMINDER_ENABLED", "true">>} : EditEnvFile(e[1], e[2])

SchedulerLoop ==
    \/ StartTask
    \/ Tick
    \/ FinishCheck
    \/ Wake
    \/ Select(SchedulerRun)

Scheduler ==
    \/ SchedulerLoop
    \/ \E o \in Outcomes : Send(SchedulerRun, o)
    \/ MarkSent(SchedulerRun)
    \/ MarkBlocked(SchedulerRun)

\* One invocation of process_reminders, started at any moment.
Check(r) ==
    \/ CheckStart(r)
    \/ Select(r)
    \/ \E o \in Outcomes : Send(r, o)
    \/ MarkSent(r)
    \/ MarkBlocked(r)
    \/ CheckReturn(r)

Broadcast ==
    \/ BroadcastStart
    \/ \E o \in Outcomes : BroadcastSend(o)
    \/ BroadcastFinish

\* The reminder pipeline as the bot runs it: one scheduler task and the inbound path.
Spec ==
    /\ Init
    /\ [][\/ AdvanceClock
          \/ Inbound
          \/ Scheduler]_vars

\* The initial states in which the scheduler task is started.
InitEnabled ==
    /\ Init
    /\ REMINDER_ENABLED

\* Two overlapping runs of process_reminders.
SpecOverlap ==
    /\ InitEnabled
    /\ [][\/ AdvanceClock
          \/ Inbound
          \/ \E r \in Runs : Check(r)]_vars

\* The scheduler loop under operator changes of the settings and of the .env file.
SpecSettings ==
    /\ Init
    /\ [][\/ AdvanceClock
          \/ Operator
          \/ SchedulerLoop]_vars

InitDispatch ==
    /\ InitEnabled
    /\ settings.reminder_delay_minutes = "1"

\* Both dispatch paths (reminders and broadcasts) over the same users.
SpecDispatch ==
    /\ InitDispatch
    /\ [][\/ AdvanceClock
          \/ Inbound
          \/ CheckStart(2)
          \/ Select(2)
          \/ \E o \in {"ok", "forbidden"} : Send(2, o)
          \/ MarkSent(2)
          \/ MarkBlocked(2)
          \/ CheckReturn(2)
          \/ Broadcast]_vars

\* The scenario of one appraisal per user with every delivery accepted; a check
\* completes before the clock moves on.
ScenarioAppraise(u) ==
    /\ users[u].exists
    /\ \A v \in ValuationIds : valuations[v].user_id # u
    /\ evaluate_username(u)

ScenarioClock ==
    /\ sched.pc = "sleep"
    /\ now < sched.wake_time
    /\ AdvanceClock

ScenarioScheduler ==
    \/ SchedulerLoop
    \/ Send(SchedulerRun, "ok")
    \/ MarkSent(SchedulerRun)

SpecScenario ==
    /\ InitEnabled
    /\ [][\/ ScenarioClock
          \/ \E u \in Users : cmd_start(u)
          \/ \E u \in Users : ScenarioAppraise(u)
          \/ ScenarioScheduler]_vars
    /\ WF_vars(ScenarioClock)
    /\ WF_vars(ScenarioScheduler)


\* ======================================================== properties ====
\* A step in which invocation r of process_reminders runs its selection.
SelectStep(r) == run[r].pc = "select" /\ run'[r].pc # "select"

\* The users of the rows that step selected.
SelectedUsers(r) == {run'[r].todo[i].user_id : i \in 1..Len(run'[r].todo)}

\* The valuations of the rows that step selected.
SelectedValuations(r) == {run'[r].todo[i].valuation_id : i \in 1..Len(run'[r].todo)}

\* The delay in minutes a check reads from the Settings Store.
ConfiguredDelay == IntOrDefault(settings.reminder_delay_minutes, DefaultDelayMinutes)

Owner(v) == valuations[v].user_id

\* C1: for one valuation at most one reminder is delivered, also when two runs
\* of process_reminders overlap.
C1_AtMostOneReminderPerValuation ==
    \A v \in DOMAIN delivered : delivered[v] <= 1

\* C2: while a user is REMINDED (reminder-sent set on the user, no create_valuation
\* since), no reminder check selects that user.
C2_RemindedUserNotSelected ==
    [][\A r \in Runs : \A u \in Users :
          (users[u].reminder_sent /\ SelectStep(r)) => u \notin SelectedUsers(r)]_vars

\* C3: every row a reminder check returns is for a non-blocked user and a valuation
\* of that user with both flags false that was created more than the configured
\* delay before the check, and no user has two rows.
C3_SelectedRowsQualify ==
    [][\A r \in Runs : SelectStep(r) =>
          LET rows == run'[r].todo IN
          /\ \A i \in 1..Len(rows) :
                LET u == rows[i].user_id
                    v == rows[i].valuation_id
                IN /\ users[u].exists
                   /\ ~users[u].is_bot_blocked
                   /\ v \in ValuationIds
                   /\ valuations[v].user_id = u
                   /\ ~valuations[v].manager_contacted
                   /\ ~valuations[v].reminder_sent
                   /\ now - valuations[v].valuation_date > ConfiguredDelay * SecondsPerMinute
          /\ \A i, j \in 1..Len(rows) : rows[i].user_id = rows[j].user_id => i = j]_vars

\* A check has selected one row for a user who holds two valuations with both flags false.
C3_Witness ==
    \E r \in Runs :
        /\ run[r].pc = "send"
        /\ \E v, w \in ValuationIds :
              /\ v # w
              /\ Owner(v) = Head(run[r].todo).user_id
              /\ Owner(w) = Owner(v)
              /\ ~valuations[v].manager_contacted /\ ~valuations[v].reminder_sent
              /\ ~valuations[w].manager_contacted /\ ~valuations[w].reminder_sent

C5_ContactedNeverSelected ==
    [][/\ \A u \in Users : mark_manager_contacted(u) =>
             \A v \in ValuationIds : Owner(v) = u => valuations'[v].manager_contacted
       /\ \A v \in ValuationIds :
             valuations[v].manager_contacted =>
                /\ Len(valuations') >= v
                /\ valuations'[v].manager_contacted
                /\ \A r \in Runs : SelectStep(r) => v \notin SelectedValuations(r)]_vars

\* A check that began at the current time found nothing to send although a valuation,
\* marked operator-contacted, is otherwise due.
C5_Witness ==
    /\ run[SchedulerRun].pc = "done"
    /\ run[SchedulerRun].total = 0
    /\ sched.current_time = now
    /\ \E v \in ValuationIds :
          /\ valuations[v].manager_contacted
          /\ ~valuations[v].reminder_sent
          /\ users[Owner(v)].exists
          /\ ~users[Owner(v)].is_bot_blocked
          /\ now - valuations[v].valuation_date > ConfiguredDelay * SecondsPerMinute

\* C6: while no mark_user_unblocked is made for a blocked user, the blocked flag
\* stays true, no reminder check selects the user and no broadcast that starts takes
\* the user as a target.
C6_BlockedNeverTargeted ==
    [][\A u \in Users :
          (users[u].is_bot_blocked /\ ~mark_user_unblocked(u)) =>
              /\ users'[u].is_bot_blocked
              /\ \A r \in Runs : SelectStep(r) => u \notin SelectedUsers(r)
              /\ (bc.pc = "idle" /\ bc'.pc # "idle") => u \notin Range(bc'.todo)]_vars

\* A broadcast that started with no target while an existing user, holding a due
\* valuation, is blocked.
C6_Witness ==
    /\ bc.pc = "done"
    /\ bc.total = 0
    /\ \E v \in ValuationIds :
          /\ users[Owner(v)].exists
          /\ users[Owner(v)].is_bot_blocked
          /\ ~valuations[v].manager_contacted
          /\ ~valuations[v].reminder_sent
          /\ now - valuations[v].valuation_date > ConfiguredDelay * SecondsPerMinute

\* C7: a reminder delivery rejected by a block sets the user's blocked flag and
\* sets reminder-sent neither on the user nor on any valuation.
C7_BlockedReminderNotMarked ==
    [][\A r \in Runs :
          /\ (run[r].pc = "send" /\ run'[r].pc = "mark_blocked") =>
                /\ users' = users
                /\ valuations' = valuations
                /\ delivered' = delivered
          /\ (run[r].pc = "mark_blocked" /\ run'[r].pc # "mark_blocked") =>
                LET u == Head(run[r].todo).user_id IN
                /\ users'[u].is_bot_blocked
                /\ users'[u].reminder_sent = users[u].reminder_sent
                /\ Len(valuations') = Len(valuations)
                /\ \A v \in ValuationIds :
                      valuations'[v].reminder_sent = valuations[v].reminder_sent]_vars

\* A user blocked by a rejected reminder: blocked, never reminded, the valuation still unmarked.
C7_Witness ==
    \E v \in ValuationIds :
        /\ users[Owner(v)].is_bot_blocked
        /\ ~users[Owner(v)].reminder_sent
        /\ ~valuations[v].reminder_sent
        /\ ~valuations[v].manager_contacted
        /\ delivered[v] = 0
        /\ run[SchedulerRun].pc = "done"
        /\ run[SchedulerRun].failed = 1

\* A valuation whose delivery failed for a non-block reason and that is still
\* waiting: neither flag set, the user not blocked.
AwaitsRetry(v) ==
    /\ v \in failed_once
    /\ ~valuations[v].manager_contacted
    /\ ~valuations[v].reminder_sent
    /\ ~users[Owner(v)].is_bot_blocked

\* A step in which a delivery fails for a reason other than a block.
FailStep(r) == run[r].pc = "send" /\ run'[r].failed = run[r].failed + 1

\* C8 as stated: a non-block failure changes no flag, and the same valuation is
\* selected again at every later check until success, block or operator contact.
C8_SameValuationRetried ==
    [][\A r \in Runs :
          /\ FailStep(r) => (users' = users /\ valuations' = valuations)
          /\ SelectStep(r) =>
                \A v \in ValuationIds : AwaitsRetry(v) => v \in SelectedValuations(r)]_vars

\* C8 amended: a non-block failure changes no flag, and at every later check at
\* which the valuation still has both flags false, the user is not blocked and the
\* valuation is older than the delay configured then, the user is selected again,
\* with that valuation or with a more recent one.
C8_UserRetriedWhileDue ==
    [][\A r \in Runs :
          /\ FailStep(r) => (users' = users /\ valuations' = valuations)
          /\ SelectStep(r) =>
                \A v \in ValuationIds :
                    (/\ AwaitsRetry(v)
                     /\ now - valuations[v].valuation_date > ConfiguredDelay * SecondsPerMinute)
                    => \E i \in 1..Len(run'[r].todo) :
                          /\ run'[r].todo[i].user_id = Owner(v)
                          /\ run'[r].todo[i].valuation_date >= valuations[v].valuation_date]_vars

\* A valuation whose delivery failed before has been selected again.
C8_Witness ==
    \E r \in Runs :
        /\ run[r].pc = "send"
        /\ Head(run[r].todo).valuation_id \in failed_once

\* A step of the loop that starts a reminder check.
CheckStartsAtTick == sched.pc = "tick" /\ sched'.pc = "checking"

\* C9: at a tick at which the stored reminder-enabled setting is false, no reminder
\* check is performed.
C9_DisabledSettingStopsChecks ==
    [][CheckStartsAtTick => settings'.reminder_enabled # "false"]_vars

\* C10: a tick performs a check only if none has been performed yet or the time
\* since the last performed check is at least the interval stored at that tick.
C10_CheckOnlyWhenIntervalElapsed ==
    [][CheckStartsAtTick =>
          \/ sched.last_check_time = NoTime
          \/ now - sched.last_check_time >=
                IntOrDefault(settings'.reminder_check_interval, DefaultIntervalMinutes)
                    * SecondsPerMinute]_vars

\* A second check is running that was started under an interval changed by an operator.
C10_Witness ==
    /\ sched.pc = "checking"
    /\ sched.last_check_time # NoTime
    /\ settings.reminder_check_interval = "2"
    /\ sched.current_time - sched.last_check_time >= 2 * SecondsPerMinute

\* ------------------------------------------ reminder_task life cycle ----
\* The reminder task with ticks that raise, and the shutdown of main().
LifecycleInbound ==
    /\ main.pc = "polling"
    /\ \E u \in Users : cmd_start(u) \/ evaluate_username(u)

LifecycleTask ==
    /\ ~main.must_cancel
    /\ \/ Scheduler
       \/ MarkSentFails(SchedulerRun)
       \/ TickRaises
       \/ CheckRaises
       \/ WakeAfterError

LifecycleFinally ==
    \/ TaskCancelled
    \/ MainTaskAwaited
    \/ MainClose

\* The event loop runs a task that is ready, and time passes.
SpecLifecycle ==
    /\ Init
    /\ [][\/ AdvanceClock
          \/ LifecycleInbound
          \/ LifecycleTask
          \/ MainShutdown
          \/ LifecycleFinally]_vars
    /\ WF_vars(AdvanceClock)
    /\ WF_vars(LifecycleTask)
    /\ WF_vars(LifecycleFinally)

\* C11: the scheduler loop ends only when the task was cancelled, and after an
\* exception that escaped a tick the loop, once the cooldown is over, is back at
\* the start of a tick (unless it was cancelled meanwhile).
C11_LoopSurvivesExceptions ==
    /\ [](sched.pc = "ended" => main.cancelled)
    /\ (sched.pc = "error_sleep") ~> (sched.pc = "tick" \/ main.cancelled)

\* A check is running that was started after the loop had caught an exception.
C11_Witness ==
    /\ sched.errors >= 1
    /\ sched.pc = "checking"
    /\ ~main.cancelled

\* C13: once the task was cancelled at shutdown the loop ends, no reminder check
\* starts after the cancellation, the pool is closed only after the loop has ended,
\* and the pool is eventually closed.
C13_CancelEndsLoopAndClosesPool ==
    /\ main.cancelled ~> (sched.pc = "ended")
    /\ [][main.cancelled => ~CheckStartsAtTick]_vars
    /\ [](main.pool = "closed" => ~TaskAlive \/ ~REMINDER_ENABLED)
    /\ main.cancelled ~> (main.pool = "closed")

\* The pool is closed after a cancellation that hit the loop between a delivery
\* and its mark.
C13_Witness ==
    /\ main.pool = "closed"
    /\ main.cancelled
    /\ sched.pc = "ended"
    /\ \E v \in ValuationIds : delivered[v] = 1 /\ ~valuations[v].reminder_sent

\* ------------------------------------------------ unparseable settings ----

SpecParse ==
    /\ InitEnabled
    /\ [][\/ AdvanceClock
          \/ \E u \in Users : cmd_start(u)
          \/ \E u \in Users : evaluate_username(u)
          \* Values that int() rejects, written to the .env file and synced into the store.
          \/ \E e \in {<<"REMINDER_CHECK_INTERVAL_MINUTES", "abc">>,
                        <<"REMINDER_DELAY_MINUTES", "abc">>} : EditEnvFile(e[1], e[2])
          \/ Scheduler]_vars

\* C12: a tick that reads an unparseable interval decides with the interval of 1
\* minute and goes on to the check or to the normal sleep, and a check that reads
\* an unparseable delay selects with the delay of 15 minutes; neither ends the
\* loop or enters the error cooldown.
C12_UnparseableSettingFallsBack ==
    [][/\ (/\ sched.pc = "tick"
           /\ sched'.pc # "tick"
           /\ ~ParsesAsInt(settings'.reminder_check_interval))
          => /\ sched'.pc \in {"checking", "sleep"}
             /\ (sched'.pc = "checking") <=>
                   (\/ sched.last_check_time = NoTime
                    \/ now - sched.last_check_time >=
                          DefaultIntervalMinutes * SecondsPerMinute)
       /\ \A r \in Runs :
             (SelectStep(r) /\ ~ParsesAsInt(settings.reminder_delay_minutes))
             => /\ run'[r].todo \in get_users_for_reminder(DefaultDelayMinutes)
                /\ run'[r].pc \in {"send", "done"}
                /\ sched' = sched]_vars

\* A second check, started at a tick that read an unparseable interval, or a check
\* that read an unparseable delay and left a valuation older than one minute unselected.
C12_Witness ==
    \/ /\ sched.pc = "checking"
       /\ sched.last_check_time # NoTime
       /\ ~ParsesAsInt(settings.reminder_check_interval)
    \/ /\ sched.pc = "checking"
       /\ run[SchedulerRun].pc = "done"
       /\ run[SchedulerRun].total = 0
       /\ ~ParsesAsInt(settings.reminder_delay_minutes)
       /\ \E v \in ValuationIds :
             /\ users[Owner(v)].exists
             /\ now - valuations[v].valuation_date > SecondsPerMinute

\* ------------------------------------------------- a fresh valuation ----
\* A step that inserts a valuation, and the user it is inserted for.
CreatesValuation == Len(valuations') = Len(valuations) + 1

NewValuation == valuations'[Len(valuations')]

\* The most recent valuations of user u.
MostRecentValuations(u) ==
    {v \in ValuationIds :
        /\ Owner(v) = u
        /\ \A w \in ValuationIds :
              Owner(w) = u => valuations[w].valuation_date <= valuations[v].valuation_date}

\* The most recent valuation of u has both flags false and is older than the
\* delay configured now.
OpenAndDue(u) ==
    \E v \in MostRecentValuations(u) :
        /\ ~valuations[v].manager_contacted
        /\ ~valuations[v].reminder_sent
        /\ now - valuations[v].valuation_date > ConfiguredDelay * SecondsPerMinute

C15_ValuationFlagsWriteOnce ==
    [][/\ Len(valuations') >= Len(valuations)
       /\ \A v \in ValuationIds :
             /\ valuations[v].manager_contacted => valuations'[v].manager_contacted
             /\ valuations[v].reminder_sent => valuations'[v].reminder_sent]_vars

\* A valuation keeps both flags after its user appraised again, which reset the
\* flags of the user.
C15_Witness ==
    \E v, w \in ValuationIds :
        /\ v < w
        /\ Owner(v) = Owner(w)
        /\ valuations[v].manager_contacted
        /\ valuations[v].reminder_sent
        /\ users[Owner(v)].exists
        /\ ~users[Owner(v)].contacted_manager
        /\ ~users[Owner(v)].reminder_sent

\* ------------------------------------------------------ the broadcast ----
\* The broadcast of an operator beside the inbound path, with the failures of
\* the store during the run.
BroadcastAborts ==
    \/ BroadcastStartRaises
    \/ BroadcastSendRaises
    \/ BroadcastShowError

SpecBroadcast ==
    /\ Init
    /\ [][\/ Inbound
          \/ Broadcast
          \/ BroadcastAborts]_vars

\* The number of targets execute_broadcast has attempted so far.
Attempted == Len(bc.users) - Len(bc.todo)

C18_BlockedRecipientMarkedAndCounted ==
    [][(/\ bc.pc = "sending"
        /\ bc' # bc
        /\ bc'.last_outcome = "forbidden"
        /\ ~bc'.aborted) =>
           /\ Head(bc.todo) \in Range(bc.users)
           /\ users'[Head(bc.todo)].is_bot_blocked
           /\ bc'.blocked = bc.blocked + 1
           /\ bc'.failed = bc.failed
           /\ bc'.success = bc.success]_vars

\* A target of the run in progress was rejected as blocked: it is flagged and in
\* the blocked bucket.
C18_Witness ==
    /\ bc.pc \in {"sending", "done"}
    /\ ~bc.aborted
    /\ bc.last_outcome = "forbidden"
    /\ bc.blocked >= 1
    /\ bc.failed = 0
    /\ \E u \in Range(bc.users) : users[u].is_bot_blocked

\* C19: a run aborted by the store ends with the error text shown to the
\* operator, and the report with counts is shown only at the return of a run
\* that the store did not abort.
C19_AbortedBroadcastShowsError ==
    /\ [][/\ (bc.pc = "idle" /\ bc' # bc /\ bc'.aborted) => bc'.pc = "raised"
          /\ (bc.pc = "raised" /\ bc' # bc) => (bc'.pc = "idle" /\ bc'.shown = "error")
          /\ (bc'.shown = "report" /\ bc' # bc) => (bc.pc = "done" /\ ~bc.aborted)]_vars
    /\ [](bc.aborted => bc.shown # "report")

\* The store was unavailable when the target list was to be read: the operator
\* has the error text, and no run is in progress.
C19_Witness ==
    /\ bc.pc = "idle"
    /\ bc.aborted
    /\ bc.shown = "error"
    /\ bc.total = 0

\* ------------------------------------------- operator notifications ----
AbandonedCounts == {2, DefaultAbandonedThreshold, DefaultAbandonedThreshold + 1}

\* The notification toggles.
Toggles == {"notify_new_users", "notify_orders", "notify_abandoned_checkouts"}

\* The table is empty and the defaults are those of the environment.
InitNotify ==
    /\ InitCore([k \in EnvKeys |-> Absent])
    /\ admin_notification_settings = [a \in ADMIN_IDS |-> NoSettingsRow]
    /\ DEFAULTS \in [notify_new_users : BOOLEAN, notify_orders : BOOLEAN,
                     notify_abandoned_checkouts : BOOLEAN,
                     \* the values DEFAULT_ABANDONED_THRESHOLD takes from the environment
                     abandoned_threshold : {2, DefaultAbandonedThreshold}]

\* SELECT * FROM admin_notification_settings WHERE admin_id = $1, or the defaults
get_notification_settings(admin_id) ==
    IF admin_notification_settings[admin_id].exists
    THEN admin_notification_settings[admin_id]
    ELSE [exists |-> FALSE,
          notify_new_users |-> DEFAULTS.notify_new_users,
          notify_orders |-> DEFAULTS.notify_orders,
          notify_abandoned_checkouts |-> DEFAULTS.notify_abandoned_checkouts,
          abandoned_threshold |-> DEFAULTS.abandoned_threshold]

\* UPDATE of one column of the row, or INSERT of a row with the other columns
\* at TRUE, TRUE, TRUE, 10
update_notification_settings(admin_id, field, value) ==
    admin_notification_settings' =
        [admin_notification_settings EXCEPT ![admin_id] =
            IF @.exists
            THEN [@ EXCEPT ![field] = value]
            ELSE [[NoSettingsRow EXCEPT !.exists = TRUE] EXCEPT ![field] = value]]

\* callback_toggle_new_users, callback_toggle_orders, callback_toggle_abandoned
callback_toggle(from_user, field) ==
    /\ IF AdminCheckMiddleware(from_user, FALSE, "admin_notif_toggle_new_users") = "handler"
       THEN update_notification_settings(from_user, field,
                                         ~get_notification_settings(from_user)[field])
       ELSE UNCHANGED admin_notification_settings
    /\ UNCHANGED <<now, users, valuations, settings, env_file, env_mtime, environ,
                   REMINDER_ENABLED, main, DEFAULTS, notification, sched, run, bc,
                   delivered, failed_once,
                   last_activity, appvars>>

\* The admins _send_to_admin is called for are recorded in notification.sent,
\* those of them for which bot.send_message raised in notification.failed;
\* failing is the set of admins the transport cannot reach.
NotificationTo(kind, count, recipients, failing) ==
    [kind |-> kind, count |-> count, n |-> 1 - notification.n,
     sent |-> recipients, failed |-> recipients \cap failing]

\* Variant of notify_new_user in which a failed delivery ends the loop over the
\* admins.
notify_new_user_StopsAtFailure(failing) ==
    /\ LET enabled == {a \in ADMIN_IDS : get_notification_settings(a).notify_new_users}
       IN notification' = NotificationTo("new_user", 0,
              {a \in enabled : \A b \in enabled \cap failing : a <= b}, failing)
    /\ UNCHANGED <<now, users, valuations, settings, env_file, env_mtime, environ,
                   REMINDER_ENABLED, main, admin_notification_settings, DEFAULTS, sched, run,
                   bc, delivered, failed_once,
                   last_activity, appvars>>

notify_new_user(failing) ==
    /\ notification' = NotificationTo("new_user", 0,
           {a \in ADMIN_IDS : get_notification_settings(a).notify_new_users}, failing)
    /\ UNCHANGED <<now, users, valuations, settings, env_file, env_mtime, environ,
                   REMINDER_ENABLED, main, admin_notification_settings, DEFAULTS, sched, run,
                   bc, delivered, failed_once,
                   last_activity, appvars>>

notify_successful_order(failing) ==
    /\ notification' = NotificationTo("order", 0,
           {a \in ADMIN_IDS : get_notification_settings(a).notify_orders}, failing)
    /\ UNCHANGED <<now, users, valuations, settings, env_file, env_mtime, environ,
                   REMINDER_ENABLED, main, admin_notification_settings, DEFAULTS, sched, run,
                   bc, delivered, failed_once,
                   last_activity, appvars>>

\* Variant of notify_abandoned_checkouts_alert that alerts at the threshold.
notify_abandoned_checkouts_alert_AtThreshold(count, failing) ==
    /\ notification' = NotificationTo("abandoned", count,
           {a \in ADMIN_IDS :
               /\ get_notification_settings(a).notify_abandoned_checkouts
               /\ ~(count < get_notification_settings(a).abandoned_threshold)}, failing)
    /\ UNCHANGED <<now, users, valuations, settings, env_file, env_mtime, environ,
                   REMINDER_ENABLED, main, admin_notification_settings, DEFAULTS, sched, run,
                   bc, delivered, failed_once,
                   last_activity, appvars>>

notify_abandoned_checkouts_alert(count, failing) ==
    /\ notification' = NotificationTo("abandoned", count,
           {a \in ADMIN_IDS :
               /\ get_notification_settings(a).notify_abandoned_checkouts
               /\ ~(count <= get_notification_settings(a).abandoned_threshold)}, failing)
    /\ UNCHANGED <<now, users, valuations, settings, env_file, env_mtime, environ,
                   REMINDER_ENABLED, main, admin_notification_settings, DEFAULTS, sched, run,
                   bc, delivered, failed_once,
                   last_activity, appvars>>

\* The operators' toggles and the notifications, every delivery succeeding.
SpecNotify ==
    /\ InitNotify
    /\ [][\/ \E a \in ADMIN_IDS, f \in Toggles : callback_toggle(a, f)
          \/ notify_new_user({})
          \/ notify_successful_order({})
          \/ \E c \in AbandonedCounts : notify_abandoned_checkouts_alert(c, {})]_vars

\* The value of a toggle or of the threshold for an operator: that of the
\* operator's row, or the default when the operator has no row.
SettingOf(a, field) ==
    IF admin_notification_settings[a].exists
    THEN admin_notification_settings[a][field]
    ELSE DEFAULTS[field]

\* C20: each notification goes to exactly those operators of the allow-list
\* whose toggle for its kind is on when it is issued (the default applying to an
\* operator without a settings row); an abandoned-checkout alert goes to
\* exactly those whose toggle is on and whose own threshold the count strictly
\* exceeds.
C20_NotificationsFollowOperatorSettings ==
    [][notification' # notification =>
          /\ notification'.sent \subseteq ADMIN_IDS
          /\ \A a \in ADMIN_IDS :
                /\ notification'.kind = "new_user" =>
                      (a \in notification'.sent <=> SettingOf(a, "notify_new_users"))
                /\ notification'.kind = "order" =>
                      (a \in notification'.sent <=> SettingOf(a, "notify_orders"))
                /\ notification'.kind = "abandoned" =>
                      (a \in notification'.sent <=>
                          /\ SettingOf(a, "notify_abandoned_checkouts")
                          /\ notification'.count > SettingOf(a, "abandoned_threshold"))]_vars

\* An alert whose count is the threshold of one operator and exceeds that of
\* another, both with the toggle on: it went to the second only.
C20_Witness ==
    /\ notification.kind = "abandoned"
    /\ \E a, b \in ADMIN_IDS :
          /\ SettingOf(a, "notify_abandoned_checkouts")
          /\ SettingOf(b, "notify_abandoned_checkouts")
          /\ notification.count = SettingOf(a, "abandoned_threshold")
          /\ notification.count > SettingOf(b, "abandoned_threshold")
          /\ a \notin notification.sent
          /\ b \in notification.sent

\* ------------------------------- notifications with failing deliveries ----

\* The notifications when the transport cannot reach some of the operators.
SpecNotifyFailures ==
    /\ InitDispatch
    /\ [][\/ \E a \in ADMIN_IDS, f \in Toggles : callback_toggle(a, f)
          \/ \E F \in SUBSET ADMIN_IDS : notify_new_user(F)
          \/ \E F \in SUBSET ADMIN_IDS : notify_successful_order(F)
          \/ \E c \in AbandonedCounts, F \in SUBSET ADMIN_IDS : notify_abandoned_checkouts_alert(c, F)]_vars

\* C21: when the delivery of a notification to an operator fails, every operator
\* of the allow-list whose settings ask for that notification is still
\* attempted, those after the failing one included.
C21_FailedDeliveryDoesNotStopOthers ==
    [][(notification' # notification /\ notification'.failed # {}) =>
          /\ notification'.failed \subseteq notification'.sent
          /\ \A a \in ADMIN_IDS :
                /\ (notification'.kind = "new_user" /\ SettingOf(a, "notify_new_users"))
                      => a \in notification'.sent
                /\ (notification'.kind = "order" /\ SettingOf(a, "notify_orders"))
                      => a \in notification'.sent
                /\ (/\ notification'.kind = "abandoned"
                    /\ SettingOf(a, "notify_abandoned_checkouts")
                    /\ notification'.count > SettingOf(a, "abandoned_threshold"))
                      => a \in notification'.sent]_vars

\* The delivery to an operator failed and a later operator of the allow-list was
\* attempted and reached.
C21_Witness ==
    \E a, b \in ADMIN_IDS :
        /\ a < b
        /\ a \in notification.failed
        /\ b \in notification.sent \ notification.failed

\* ------------------------------------------- the first settings write ----
\* The columns of a settings row.
SettingFields == Toggles \cup {"abandoned_threshold"}

\* C22: an operator without a row has the configured defaults, and the write
\* that creates the operator's row supplies one field and leaves every other
\* field at the default that was in effect before the write.
C22_FirstWriteMergesOverDefaults ==
    /\ [](\A a \in ADMIN_IDS : ~admin_notification_settings[a].exists =>
             \A f \in SettingFields : get_notification_settings(a)[f] = DEFAULTS[f])
    /\ [][\A a \in ADMIN_IDS :
             (~admin_notification_settings[a].exists /\ admin_notification_settings'[a].exists) =>
                \E f \in SettingFields :
                   \A g \in SettingFields \ {f} :
                      admin_notification_settings'[a][g] = DEFAULTS[g]]_vars

\* ------------------------------------- appraisals and the event log ----
\* The invocations that have not answered yet.
InFlight == {c \in Calls : calls[c].pc # "idle"}

\* The invocations that have answered with a report.
Answered == {c \in Calls : calls[c].pc = "idle" /\ calls[c].reply = "result"}

\* A new invocation takes a free slot; the slot is no longer a prior answer of
\* the other invocations.
StartCall(c, record) ==
    calls' = [d \in Calls |->
                 IF d = c THEN record
                 ELSE [calls[d] EXCEPT !.prior = @ \ {c}]]

\* process_username / btn_evaluate reach evaluate_username: the marker is added,
\* the text validated, the "evaluating" message sent and the handle looked up
\* on t.me (found tells whether check_username_exists returned True).
evaluate_username_begin(c, u, text, tg_username, found) ==
    /\ calls[c].pc = "idle"
    /\ Len(valuations) + Cardinality({d \in InFlight : calls[d].handler = "evaluate_username"})
          < MaxValuations
    /\ Len(events) + Cardinality(InFlight) < MaxEvents
    /\ LET username == WithMarker[text]
       IN StartCall(c,
             IF ~is_valid_username(username)
             THEN [IdleCall EXCEPT !.handler = "evaluate_username", !.user_id = u,
                                   !.username = username, !.reply = "error_format"]
             ELSE IF ~found
             THEN [IdleCall EXCEPT !.handler = "evaluate_username", !.user_id = u,
                                   !.username = username, !.reply = "error_not_found"]
             ELSE [IdleCall EXCEPT !.pc = "lookup", !.handler = "evaluate_username",
                                   !.user_id = u, !.username = username,
                                   !.tg_username = tg_username, !.prior = Answered \ {c}])
    /\ UNCHANGED <<now, users, valuations, pipelinevars, last_activity, username_valuations,
                   events, dialog, listing, valuation_data>>

\* cached_data = await db.get_valuation(username)
EvaluateLookup(c) ==
    /\ calls[c].pc = "lookup"
    /\ calls' = [calls EXCEPT ![c] =
                    IF get_valuation(calls[c].username) # NoReport
                    THEN [@ EXCEPT !.pc = "log_insert",
                                   !.data = get_valuation(calls[c].username)]
                    ELSE [@ EXCEPT !.pc = "sleep"]]
    /\ UNCHANGED <<now, users, valuations, pipelinevars, last_activity, username_valuations,
                   events, dialog, listing, valuation_data>>

\* After asyncio.sleep(3): data = get_valuation_data(username); await db.save_valuation(data)
EvaluateGenerate(c, draw) ==
    /\ calls[c].pc = "sleep"
    /\ LET data == get_valuation_data(calls[c].username, draw)
       IN /\ save_valuation(data)
          /\ calls' = [calls EXCEPT ![c] =
                [@ EXCEPT !.pc = "log_insert", !.data = data,
                          !.lost = username_valuations[Lower[StripMarker[data.username]]]
                                      # NoReport]]
    /\ UNCHANGED <<now, users, valuations, pipelinevars, last_activity, events, dialog,
                   listing, valuation_data>>

\* callback_sell_current: the handler goes straight to log_event.
callback_sell_current(c, u, tg_username) ==
    /\ calls[c].pc = "idle"
    /\ Len(events) + Cardinality(InFlight) < MaxEvents
    /\ StartCall(c, [IdleCall EXCEPT !.pc = "log_insert", !.handler = "callback_sell_current",
                                     !.user_id = u, !.tg_username = tg_username])
    /\ UNCHANGED <<now, users, valuations, pipelinevars, last_activity, username_valuations,
                   events, dialog, listing, valuation_data>>

\* The event type the handler passes to log_event.
EventTypeOf(handler) ==
    IF handler = "evaluate_username" THEN "check_nickname" ELSE "start_checkout"

\* add_event, first statement: INSERT INTO events (user_id, event_type, metadata)
AddEventInsert(c) ==
    /\ calls[c].pc = "log_insert"
    /\ events' = Append(events, [user_id |-> calls[c].user_id,
                                 event_type |-> EventTypeOf(calls[c].handler),
                                 timestamp |-> now])
    /\ calls' = [calls EXCEPT ![c] = [@ EXCEPT !.pc = "log_touch", !.event_id = Len(events) + 1]]
    /\ UNCHANGED <<now, users, valuations, pipelinevars, last_activity, username_valuations,
                   dialog, listing, valuation_data>>

\* UPDATE users SET last_activity = NOW() WHERE user_id = $1
TouchLastActivity(u) ==
    last_activity' = IF users[u].exists THEN [last_activity EXCEPT ![u] = now]
                     ELSE last_activity

\* The step of the handler that follows log_event.
AfterLog(handler) == IF handler = "evaluate_username" THEN "create" ELSE "answer"

\* add_event, second statement; add_event returns.
AddEventTouch(c) ==
    /\ calls[c].pc = "log_touch"
    /\ TouchLastActivity(calls[c].user_id)
    /\ calls' = [calls EXCEPT ![c] =
                    [@ EXCEPT !.pc = IF calls[c].tg_username THEN "log_update_user"
                                     ELSE AfterLog(calls[c].handler)]]
    /\ UNCHANGED <<now, users, valuations, pipelinevars, username_valuations, events, dialog,
                   listing, valuation_data>>

\* log_event: if username: await self.db.update_user_info(user_id, username)
LogUpdateUserInfo(c) ==
    /\ calls[c].pc = "log_update_user"
    /\ TouchLastActivity(calls[c].user_id)
    /\ calls' = [calls EXCEPT ![c] = [@ EXCEPT !.pc = AfterLog(calls[c].handler)]]
    /\ UNCHANGED <<now, users, valuations, pipelinevars, username_valuations, events, dialog,
                   listing, valuation_data>>

\* evaluate_username: create_valuation and the answer with the formatted result.
EvaluateAnswer(c) ==
    /\ calls[c].pc = "create"
    /\ create_valuation(calls[c].user_id)
    /\ calls' = [calls EXCEPT ![c] =
                    [@ EXCEPT !.pc = "idle", !.reply = "result", !.shown = calls[c].data]]
    /\ UNCHANGED <<now, pipelinevars, last_activity, username_valuations, events, dialog,
                   listing, valuation_data>>

\* callback_sell_current: the answer with the selling instructions.
SellAnswer(c) ==
    /\ calls[c].pc = "answer"
    /\ calls' = [calls EXCEPT ![c] = [@ EXCEPT !.pc = "idle", !.reply = "sell_info"]]
    /\ UNCHANGED <<now, users, valuations, pipelinevars, last_activity, username_valuations,
                   events, dialog, listing, valuation_data>>

log_event(c) ==
    \/ AddEventInsert(c)
    \/ AddEventTouch(c)
    \/ LogUpdateUserInfo(c)

\* The appraisals, without the sell button.
SpecAppraisal ==
    /\ InitDispatch
    /\ [][\/ \E c \in Calls, u \in Users, text \in InputTexts, tg \in BOOLEAN, found \in BOOLEAN :
                evaluate_username_begin(c, u, text, tg, found)
          \/ \E c \in Calls : EvaluateLookup(c)
          \* The outcomes of the random calls of get_valuation_data taken in the appraisals:
          \* the two randint results and the choice of the descriptive fields.
          \/ \E c \in Calls,
                draw \in {[low |-> 1105, offset |-> 500, category |-> "Crypto Native"],
                          [low |-> 3500, offset |-> 1500, category |-> "Tech Startup"]} :
                EvaluateGenerate(c, draw)
          \/ \E c \in Calls : log_event(c)
          \/ \E c \in Calls : EvaluateAnswer(c)]_vars

SpecEvents ==
    /\ InitDispatch
    /\ [][\/ AdvanceClock
          \/ \E u \in Users : cmd_start(u)
          \* The handlers that log events, beside /start and the clock; the handle
          \* appraised and the random draws are always the same.
          \/ \E c \in Calls, u \in Users, tg \in BOOLEAN :
                evaluate_username_begin(c, u, "@abcd", tg, TRUE)
          \/ \E c \in Calls : EvaluateLookup(c)
          \/ \E c \in Calls : EvaluateGenerate(c, [low |-> 1105, offset |-> 500,
                                                     category |-> "Crypto Native"])
          \/ \E c \in Calls : EvaluateAnswer(c)
          \/ \E c \in Calls, u \in Users, tg \in BOOLEAN : callback_sell_current(c, u, tg)
          \/ \E c \in Calls : SellAnswer(c)
          \/ \E c \in Calls : log_event(c)]_vars

\* --------------------------------------------------- the report cache ----
\* C23: the table holds at most one report per normalized handle, under that
\* handle, and a stored report never changes: whatever the lookups and the racing
\* inserts, it stays the first one inserted.
C23_FirstReportIsPermanent ==
    /\ [](\A k \in CleanUsernames :
             username_valuations[k] # NoReport =>
                (username_valuations[k].username = k /\ Lower[k] = k))
    /\ [][\A k \in CleanUsernames :
             username_valuations[k] # NoReport =>
                username_valuations'[k] = username_valuations[k]]_vars

\* Two appraisals of a handle both missed the cache; the second to insert met the
\* row of the first and has answered with a report other than the stored one.
C23_Witness ==
    \E c \in Calls :
        /\ calls[c].lost
        /\ calls[c].reply = "result"
        /\ calls[c].pc = "idle"
        /\ username_valuations[Lower[StripMarker[calls[c].username]]].price_low
              # calls[c].shown.price_low

\* C24: when an appraisal of a valid handle answered with a report that is the
\* stored one, a later appraisal of the same handle, in any letter case and
\* with or without the marker, started after that answer, answers with the
\* same report, the displayed handle included.
C24_SequentialAppraisalsIdentical ==
    \A c, d \in Calls :
        (/\ c \in calls[d].prior
         /\ c \in Answered
         /\ d \in Answered
         /\ ~calls[c].lost
         /\ Lower[StripMarker[calls[c].username]] = Lower[StripMarker[calls[d].username]])
        => calls[d].shown = calls[c].shown

\* --------------------------------------------------- the price pair ----
\* get_valuation_data, line 51: the first randint and the rounding
DrawPriceLow(low_draw) ==
    /\ valuation_data.pc = "start"
    /\ valuation_data' = [valuation_data EXCEPT !.pc = "low", !.price_low = PriceLow(low_draw)]
    /\ UNCHANGED <<now, users, valuations, pipelinevars, last_activity, username_valuations,
                   calls, events, dialog, listing>>

\* get_valuation_data, lines 52-55: the second randint and the ceiling
DrawPriceHigh(offset_draw) ==
    /\ valuation_data.pc = "low"
    /\ valuation_data' = [valuation_data EXCEPT
                             !.pc = "done",
                             !.price_high = PriceHigh(valuation_data.price_low, offset_draw)]
    /\ UNCHANGED <<now, users, valuations, pipelinevars, last_activity, username_valuations,
                   calls, events, dialog, listing>>

\* Every result of the two random calls.
SpecPrices ==
    /\ InitDispatch
    /\ [][\/ \E low_draw \in PriceLowMin..PriceLowMax : DrawPriceLow(low_draw)
          \/ \E offset_draw \in OffsetMin..OffsetMax : DrawPriceHigh(offset_draw)]_vars

\* C25: in every report price_low is a multiple of ten within 1100..3500,
\* price_high is at least price_low + 500 and at most 4500.
C25_PricePairWithinBands ==
    valuation_data.pc = "done" =>
        /\ valuation_data.price_low % 10 = 0
        /\ valuation_data.price_low >= 1100
        /\ valuation_data.price_low <= 3500
        /\ valuation_data.price_high >= valuation_data.price_low + 500
        /\ valuation_data.price_high <= 4500

\* The highest price_low with an offset that passes the ceiling: price_high is
\* the clamped value.
C25_Witness ==
    /\ valuation_data.pc = "done"
    /\ valuation_data.price_low = 3500
    /\ valuation_data.price_high = 4200

\* ------------------------------------------------------ the event log ----
\* C26: a reader never finds the event of an add_event call in the table while
\* the last activity of its user, who has a row, is still older than the event.
C26_EventAndActivityAtomic ==
    \A c \in {d \in Calls : calls[d].pc = "log_touch"} :
        users[calls[c].user_id].exists =>
            /\ last_activity[calls[c].user_id] # FirstSeen
            /\ last_activity[calls[c].user_id] >= events[calls[c].event_id].timestamp

\* C27: every row of the events table has the user id of an existing users row.
C27_EveryEventHasItsUser ==
    \A i \in 1..Len(events) : users[events[i].user_id].exists

\* SELECT COUNT(*) FROM events WHERE event_type = $1 AND timestamp >= $2 AND timestamp <= $3
get_event_count(table, event_type, start_date, end_date) ==
    Cardinality({i \in 1..Len(table) :
                    /\ table[i].event_type = event_type
                    /\ table[i].timestamp >= start_date
                    /\ table[i].timestamp <= end_date})

\* C28: the INSERT of add_event raises the count of the events of its type by one
\* in every window containing now, and when add_event returns for a user who
\* has a row, the user's last activity is the timestamp of the inserted event.
C28_EventCountedAndActivityEqualsTimestamp ==
    [][/\ \A c \in Calls :
             (calls[c].pc = "log_insert" /\ calls'[c].pc = "log_touch") =>
                \A lo, hi \in {t \in 0..MaxTime : t % ClockStep = 0} :
                    (lo <= now /\ now <= hi) =>
                        get_event_count(events', EventTypeOf(calls[c].handler), lo, hi)
                           = get_event_count(events, EventTypeOf(calls[c].handler), lo, hi) + 1
       /\ \A c \in Calls :
             (/\ calls[c].pc = "log_touch"
              /\ calls'[c].pc # "log_touch"
              /\ users[calls[c].user_id].exists) =>
                last_activity'[calls[c].user_id] = events[calls[c].event_id].timestamp]_vars

\* ---------------------------------------------------- the users listing ----
MaxListed == 3
MaxPage == 3
MaxPageSize == 2

UsersTables ==
    \* The rows of the users table as the listing reads them: the key, whether the
    \* username is neither NULL nor empty, and the last activity.
    {S \in SUBSET [user_id : 1..MaxListed, has_handle : BOOLEAN, last_activity : {0, ClockStep}] :
        \A a, b \in S : a.user_id = b.user_id => a = b}

\* ORDER BY (username IS NOT NULL AND username != '') DESC, last_activity DESC:
\* the orders in which the query may return the rows; rows with equal keys
\* come in any order.
Orderings(rows) ==
    LET OrderedBefore(a, b) ==
            \/ a.has_handle /\ ~b.has_handle
            \/ a.has_handle = b.has_handle /\ a.last_activity >= b.last_activity
    IN  {f \in [1..Cardinality(rows) -> rows] :
            /\ \A i, j \in DOMAIN f : i # j => f[i] # f[j]
            /\ \A i, j \in DOMAIN f : i < j => OrderedBefore(f[i], f[j])}

\* LIMIT $1 OFFSET $2
LimitOffset(ordered, limit, offset) ==
    LET rest == IF Len(ordered) > offset THEN Len(ordered) - offset ELSE 0
        n    == IF rest < limit THEN rest ELSE limit
    IN  [i \in 1..n |-> ordered[offset + i]]

\* SELECT COUNT(*) FROM users
get_total_users(rows) == Cardinality(rows)

PageOffset_ZeroBased(page, page_size) == page * page_size

\* offset = (page - 1) * page_size
PageOffset(page, page_size) == (page - 1) * page_size

\* total_pages = (total_count + page_size - 1) // page_size
TotalPages(total_count, page_size) == (total_count + page_size - 1) \div page_size

\* The users table takes a population.
UsersTable ==
    /\ listing = NoListing
    /\ \E rows \in UsersTables \ {{}} : listing' = [listing EXCEPT !.rows = rows]
    /\ UNCHANGED <<now, users, valuations, pipelinevars, last_activity,
                   username_valuations, calls, events, dialog, valuation_data>>

\* AnalyticsService.get_users_list(page, page_size)
get_users_list(page, page_size) ==
    /\ \E ordered \in Orderings(listing.rows) :
          listing' = [listing EXCEPT
                         !.users = LimitOffset(ordered, page_size, PageOffset(page, page_size)),
                         !.total_count = get_total_users(listing.rows),
                         !.page = page,
                         !.page_size = page_size,
                         !.total_pages = TotalPages(get_total_users(listing.rows), page_size)]
    /\ UNCHANGED <<now, users, valuations, pipelinevars, last_activity,
                   username_valuations, calls, events, dialog, valuation_data>>

SpecListing ==
    /\ InitDispatch
    /\ [][\/ UsersTable
          \/ \E page \in 1..MaxPage, page_size \in 1..MaxPageSize : get_users_list(page, page_size)]_vars

\* C29: page p of size s over N users is the rows at positions (p-1)*s+1 to
\* min(p*s, N) of an ordering by has-handle descending, then last activity
\* descending; total_pages is the ceiling of N/s; a page past the last one is
\* the empty list.
C29_PageIsSliceOfOrdering ==
    listing.page # 0 =>
        LET N  == Cardinality(listing.rows)
            p  == listing.page
            s  == listing.page_size
            lo == (p - 1) * s + 1
            hi == IF p * s < N THEN p * s ELSE N
        IN  /\ \E ordered \in Orderings(listing.rows) :
                  /\ Len(listing.users) = (IF hi >= lo THEN hi - lo + 1 ELSE 0)
                  /\ \A k \in lo..hi : listing.users[k - lo + 1] = ordered[k]
            /\ listing.total_pages * s >= N
            /\ (listing.total_pages - 1) * s < N
            /\ p > listing.total_pages => listing.users = <<>>

\* The second page of size two over three users holds the third user alone,
\* a user without a handle listed after two users with one.
C29_Witness ==
    /\ Cardinality(listing.rows) = 3
    /\ listing.page = 2
    /\ listing.page_size = 2
    /\ listing.total_pages = 2
    /\ Len(listing.users) = 1
    /\ ~listing.users[1].has_handle
    /\ \E r \in listing.rows : r.has_handle

\* -------------------------------------------------- the settings dialogs ----
\* C30: a text an operator sends in the interval dialog that is not an integer
\* within 1..60, or in the delay dialog that is not an integer within 1..1440,
\* is answered with a rejection, leaves the stored settings and the .env file
\* as they were, and leaves the dialog in its waiting state.
C30_InvalidInputChangesNothing ==
    [][LET WithinLimits(text, lo, hi) ==
               /\ text \in DOMAIN IntValue
               /\ lo <= IntValue[text]
               /\ IntValue[text] <= hi
       IN  \A a \in ADMIN_IDS :
           (/\ dialog'[a] # dialog[a]
            /\ dialog'[a].reply # "prompt"
            /\ \/ /\ dialog[a].state = "waiting_for_reminder_interval"
                  /\ ~WithinLimits(dialog'[a].text, 1, 60)
               \/ /\ dialog[a].state = "waiting_for_reminder_delay"
                  /\ ~WithinLimits(dialog'[a].text, 1, 1440))
           => /\ settings' = settings
              /\ env_file' = env_file
              /\ env_mtime' = env_mtime
              /\ dialog'[a].state = dialog[a].state
              /\ dialog'[a].text # NoText
                    => dialog'[a].reply \in {"invalid_range", "not_integer"}]_vars

\* An interval of 61 was rejected and the dialog still waits for the interval.
C30_Witness ==
    /\ dialog[1].state = "waiting_for_reminder_interval"
    /\ dialog[1].text = "61"
    /\ dialog[1].reply = "invalid_range"
    /\ settings["reminder_check_interval"] # "61"

\* -------------------------------------------------- rejected appraisals ----
\* C31: an appraisal of a handle shorter than the format allows, or of a handle
\* that was not found on the channel, ends at once with its error message and
\* leaves the events, the valuations, the cached reports, the users' flags and
\* the last activity as they were.
C31_RejectedAppraisalChangesNothing ==
    [][\A c \in Calls :
          (/\ calls[c].pc = "idle"
           /\ calls'[c] # calls[c]
           /\ calls'[c].handler = "evaluate_username"
           /\ \/ StrLen[StripMarker[calls'[c].username]] < 4
              \/ calls'[c].reply = "error_not_found")
          => /\ calls'[c].pc = "idle"
             /\ calls'[c].reply \in {"error_format", "error_not_found"}
             /\ events' = events
             /\ valuations' = valuations
             /\ username_valuations' = username_valuations
             /\ users' = users
             /\ last_activity' = last_activity]_vars

\* Both rejections happened: a malformed handle and a handle that was not found.
C31_Witness ==
    /\ calls[1].reply = "error_format"
    /\ calls[1].username = "@ab"
    /\ calls[2].reply = "error_not_found"
    /\ calls[2].username = "@Abcd"
    /\ events = <<>>
    /\ valuations = <<>>

\* --------------------------------------------- repeated synchronization ----
\* C32: a pass of check_and_sync that finds the .env file as the previous pass
\* left it writes no setting and returns False, also when the previous pass
\* pushed values of the file into the store.
C32_SecondPassWritesNothing ==
    [][(/\ sched.pc = "tick"
        /\ sched'.pc \in {"checking", "sleep"}
        /\ sched.last_modified = env_mtime)
       => /\ settings' = settings
          /\ environ' = environ
          /\ ~sched'.env_synced]_vars

\* REMINDER_ENABLED=false was written to the file, a pass pushed it into the
\* store, and a later pass over the unchanged file has returned False.
C32_Witness ==
    /\ env_mtime = 1
    /\ env_file["REMINDER_ENABLED"] = "false"
    /\ settings["reminder_enabled"] = "false"
    /\ sched.last_modified = env_mtime
    /\ sched.pc = "sleep"
    /\ ~sched.env_synced

\* ------------------------------------------------- the operator panel ----
\* The updates operator 1 and a sender outside ADMIN_IDS can send to the
\* operator panel, beside the users that start the bot and the broadcast runs.
SpecAdmin ==
    /\ InitDispatch
    /\ [][\/ \E u \in Users : cmd_start(u)
          \/ \E from_user \in {1, NumAdmins + 1} :
                \/ callback_set_reminder_interval(from_user)
                \/ callback_set_reminder_delay(from_user)
                \/ \E text \in {"2", "61"} : process_reminder_interval(from_user, text)
                \/ process_reminder_delay(from_user, "2")
                \/ callback_toggle(from_user, "notify_orders")
                \/ callback_broadcast_start(from_user)
                \/ \E type \in {"text", "photo"} : callback_broadcast_type(from_user, type)
                \/ \E text \in {"hello", NoText} : handle_broadcast_text(from_user, text)
                \/ handle_broadcast_photo(from_user, "file_1")
                \/ handle_broadcast_caption(from_user, "hello")
                \/ callback_broadcast_edit_text(from_user)
                \/ callback_broadcast_cancel(from_user)
                \/ callback_broadcast_confirm(from_user)
                \/ BroadcastStateClear(from_user)
          \/ \E o \in {"ok", "error"} : BroadcastSend(o)
          \/ BroadcastFinish]_vars

\* C33: no update sent by a user outside the operator allow-list starts a
\* broadcast run, changes a system setting or the .env file, or changes the
\* notification settings of an operator.
C33_StrangerChangesNothing ==
    [][LET from_user == NumAdmins + 1
       IN (\/ callback_set_reminder_interval(from_user)
           \/ callback_set_reminder_delay(from_user)
           \/ \E text \in {"2", "61"} : process_reminder_interval(from_user, text)
           \/ process_reminder_delay(from_user, "2")
           \/ callback_toggle(from_user, "notify_orders")
           \/ callback_broadcast_start(from_user)
           \/ \E type \in {"text", "photo"} : callback_broadcast_type(from_user, type)
           \/ \E text \in {"hello", NoText} : handle_broadcast_text(from_user, text)
           \/ handle_broadcast_photo(from_user, "file_1")
           \/ handle_broadcast_caption(from_user, "hello")
           \/ callback_broadcast_edit_text(from_user)
           \/ callback_broadcast_cancel(from_user)
           \/ callback_broadcast_confirm(from_user)
           \/ BroadcastStateClear(from_user))
       => /\ bc' = bc
          /\ settings' = settings
          /\ env_file' = env_file
          /\ admin_notification_settings' = admin_notification_settings
          /\ \A a \in ADMIN_IDS : dialog'[a] = dialog[a]]_vars

\* The sender outside ADMIN_IDS was refused while operator 1 has a draft
\* waiting for confirmation, and no run was started.
C33_Witness ==
    /\ dialog[NumAdmins + 1].reply = "no_access"
    /\ dialog[NumAdmins + 1].state = "none"
    /\ dialog[1].state = "confirm_broadcast"
    /\ dialog[1].broadcast_text = "hello"
    /\ bc = IdleBroadcast
    /\ \E u \in Users : users[u].exists

\* ------------------------------------------------ one draft, one run ----
\* C38: however often the confirm button is pressed, a draft that was
\* dispatched to the active users is not dispatched to them again: no second
\* run started with the stored draft delivers the message to a recipient.
C38_DraftDispatchedAtMostOnce ==
    \A a \in DOMAIN dialog : dialog[a].dispatched > 1 => bc.success = 0

\* ------------------------------------------------- the photo dialog ----
\* C39: a photo message an operator sends in waiting_for_photo stores the photo
\* and moves the dialog to waiting_for_caption, and the caption sent there
\* moves it to confirm_broadcast with the photo and the text stored.
C39_PhotoDialogAdvances ==
    [][\A a \in ADMIN_IDS :
          /\ handle_broadcast_photo(a, "file_1")
                => /\ dialog'[a].state = "waiting_for_caption"
                   /\ dialog'[a].broadcast_photo = "file_1"
          /\ handle_broadcast_caption(a, "hello")
                => /\ dialog'[a].state = "confirm_broadcast"
                   /\ dialog'[a].broadcast_photo = "file_1"
                   /\ dialog'[a].broadcast_text = "hello"]_vars

\* ------------------------------------------- the valuation that is marked ----
\* C34: when send_reminder has delivered and mark_reminder_sent has run, the
\* valuation the check selected for the user has reminder_sent set and
\* reminder_sent_at at the time of the marking.
C34_MarksSelectedValuation ==
    [][\A r \in Runs :
          (run[r].pc = "mark_sent" /\ run'[r].sent = run[r].sent + 1)
          => /\ valuations'[Head(run[r].todo).valuation_id].reminder_sent
             /\ valuations'[Head(run[r].todo).valuation_id].reminder_sent_at = now]_vars

\* ------------------------------------------- errors within one check ----
\* C35: while process_reminders is in its loop, every step of it stays with the
\* selected user at hand or goes on to the next selected user, and the run ends
\* only by returning its counts after the last selected user: no error in the
\* handling of one user leaves process_reminders or drops the users that remain.
C35_UserErrorContained ==
    [][\A r \in Runs :
          run[r].pc \in {"send", "mark_sent", "mark_blocked"}
          => /\ run'[r].pc \in {"send", "mark_sent", "mark_blocked", "done"}
             /\ run'[r].todo \in {run[r].todo, Tail(run[r].todo)}
             /\ run'[r].total = run[r].total]_vars

\* ------------------------------------------ no reminder after a contact ----
\* C36: a reminder is delivered only to a user who is not marked as having
\* contacted an operator at the moment of the delivery.
C36_NoReminderAfterContact ==
    [][\A r \in Runs :
          (run[r].pc = "send" /\ run'[r].pc = "mark_sent")
          => ~users[Head(run[r].todo).user_id].contacted_manager]_vars

InitMirror ==
    /\ InitCore([k \in EnvKeys |-> IF k = "REMINDER_DELAY_MINUTES" THEN "2" ELSE Absent])
    /\ REMINDER_ENABLED
    /\ admin_notification_settings = [a \in ADMIN_IDS |-> NoSettingsRow]
    /\ DEFAULTS = [notify_new_users |-> TRUE, notify_orders |-> TRUE,
                   notify_abandoned_checkouts |-> TRUE,
                   abandoned_threshold |-> DefaultAbandonedThreshold]

\* The scheduler loop and the settings dialogs of operator 1, with no edit of
\* the .env file from outside.
SpecMirror ==
    /\ InitMirror
    /\ [][\/ AdvanceClock
          \/ callback_set_reminder_interval(1)
          \/ callback_set_reminder_delay(1)
          \/ \E text \in {"2", "61", "abc"} : process_reminder_interval(1, text)
          \/ \E text \in {"1", "15", "1441"} : process_reminder_delay(1, text)
          \/ SchedulerLoop]_vars

\* C37: a key of system_settings changes only in the step in which an operator
\* sets this key through the settings dialog; in particular the pass of
\* check_and_sync that sees the file rewritten by the dialog changes no key.
C37_OnlyTheChangedKey ==
    [][\A key \in DOMAIN settings :
          settings'[key] # settings[key]
          => \E a \in ADMIN_IDS :
                /\ dialog'[a].reply = "updated"
                /\ dialog[a].state = IF key = "reminder_check_interval"
                                      THEN "waiting_for_reminder_interval"
                                      ELSE "waiting_for_reminder_delay"
                /\ key \in {"reminder_check_interval", "reminder_delay_minutes"}
                /\ settings'[key] = StrOfInt(IntValue[dialog'[a].text])
                /\ \A other \in DOMAIN settings \ {key} : settings'[other] = settings[other]]_vars

====
